---- MODULE Spec2Model ----
(***************************************************************************)
(* Model of OpenClContext (QuantExt/qle/math/openclenvironment.cpp): the   *)
(* compute context that records calculations, streams operations into a    *)
(* kernel source, builds and caches one kernel per calculation id and runs *)
(* it.  One action per public member function; a device API call that can  *)
(* fail is an input of the action (the step at which the device fails).    *)
(***************************************************************************)
EXTENDS Integers, Sequences, FiniteSets, TLC

\* ------------------------------------------------------------------ bounds
MaxCalcs == 2
MaxN == 2
MaxVersion == 1
MaxInputs == 1
MaxVariates == 1
MaxOps == 1
MaxFreed == 1
MaxOutputs == 1
MaxOutputVars == 1
MaxVarId == 1
MaxVars == 2
MaxCalls == 7

\* ------------------------------------------------------- program constants
mt_N == 624

MAX_BUILD_LOG_LOGFILE == 1024

\* the number of attempts of init() to create the device context
InitAttempts == 10

\* the number of seeds of the clients
MaxSeed == 2

VARIABLES
    size_, disposed_, hasKernel_, version_, program_, kernel_,
    inputBufferSize_, nOutputVars_,
    variatesPoolSize_, variatesHandles, variatesPool,
    currentId_, currentState_, nVars_, nVariates_, settings_,
    inputVarOffset_, inputVarIsScalar_, inputVarValues32_, inputVarValues64_,
    freedVariables_, outputVariables_, currentSsa_,
    supportsDoublePrecision_,
    healthy_, initialized_, context_, queue_,
    builtSource, undefinedBehaviour, ret,
    finalizedOk, everFinalized, nDeclared, issuedIds, inSequence, nCalls,
    liveIds, freeCalled

records == <<size_, disposed_, hasKernel_, version_, program_, kernel_,
             inputBufferSize_, nOutputVars_>>

inputVars == <<inputVarOffset_, inputVarIsScalar_, inputVarValues32_, inputVarValues64_>>

scratch == <<nVars_, nVariates_, inputVars, freedVariables_, outputVariables_, currentSsa_>>

history == <<finalizedOk, everFinalized, nDeclared, issuedIds, inSequence>>

\* the variable ids handed out in the evaluation in progress and not freed since,
\* and whether freeVariable has returned in it
idHistory == <<liveIds, freeCalled>>

\* the flags init() sets and the handles it creates
device == <<healthy_, initialized_, context_, queue_>>

vars == <<records, variatesPoolSize_, variatesHandles, variatesPool, currentId_, currentState_, settings_, scratch,
          supportsDoublePrecision_, device, builtSource, undefinedBehaviour, ret, history, nCalls,
          idHistory>>

\* ----------------------------------------------------------------- helpers
ComputeState == {"idle", "createInput", "createVariates", "calc"}

\* the seeds a client may ask for
Seeds == 1..MaxSeed

Settings == [useDoublePrecision : BOOLEAN, rngSeed : Seeds]

\* the settings of a client that leaves the seed alone
OneSeed == {s \in Settings : s.rngSeed = 1}

NoSource == [built |-> FALSE]

\* the content of the device memory of the variates pool: the precision of the
\* variates program, the seed and the number of twists of the mt state, and for every
\* block of mt_N variates of the pool buffer the twist that generated it (0: none)
NoPool == [fp |-> "none", seed |-> 0, twists |-> 0, blocks |-> <<>>]

\* the outcome of the last call: its name, whether it returned normally,
\* the failed check otherwise, the device API calls it made, and what it returned:
\* id (a calculation or variable id), fresh (initiateCalculation's flag), ids
\* (createInputVariates' matrix), args (the buffers finalizeCalculation bound),
\* log (the length of the build log and the characters of it in the message),
\* attempts (the context creations init() made), rn (what the kernel found in the
\* variates pool), cmds (the commands the call enqueued and the events it waited for)
NoLog == [len |-> 0, from |-> 1, to |-> 0]

\* a command of the queue: what it does (kind), its global work size (items), the
\* values of its buffer it writes (from <= i < to) and its wait list, the positions in
\* the queue of the commands whose events it waits for
Command(kind, items, from, to, waits) ==
    [kind |-> kind, items |-> items, from |-> from, to |-> to, waits |-> waits]

\* queue: the commands a call enqueued, in the order of the calls; waited: the
\* positions of the commands whose events the call passed to clWaitForEvents
NoCommands == [queue |-> <<>>, waited |-> {}]

Returned(op, dev) ==
    [op |-> op, ok |-> TRUE, err |-> "none", dev |-> dev,
     id |-> 0, fresh |-> FALSE, ids |-> <<>>, args |-> <<>>, log |-> NoLog,
     attempts |-> 0, rn |-> NoPool, cmds |-> NoCommands]

Failed(op, err, dev) ==
    [op |-> op, ok |-> FALSE, err |-> err, dev |-> dev,
     id |-> 0, fresh |-> FALSE, ids |-> <<>>, args |-> <<>>, log |-> NoLog,
     attempts |-> 0, rn |-> NoPool, cmds |-> NoCommands]

\* the lengths of the build log the device's compiler may return
BuildLogLengths ==
    {0, MAX_BUILD_LOG_LOGFILE - 1, MAX_BUILD_LOG_LOGFILE, 2 * MAX_BUILD_LOG_LOGFILE + 1}

\* std::string::substr(pos) on a string of len characters: the characters pos + 1 to
\* len (counted from 1), std::out_of_range when pos > len
Substr(len, pos) ==
    IF pos > len THEN [ok |-> FALSE, from |-> 1, to |-> 0]
    ELSE [ok |-> TRUE, from |-> pos + 1, to |-> len]

\* the exception that leaves op when clBuildProgram fails with a log of len
\* characters: the Error whose message ends with the log from MAX_BUILD_LOG_LOGFILE
\* on, or the out_of_range thrown while the message is put together
BuildFailure(op, len, dev) ==
    LET text == Substr(len, MAX_BUILD_LOG_LOGFILE) IN
    IF text.ok
    THEN [Failed(op, "buildProgram", dev)
              EXCEPT !.log = [len |-> len, from |-> text.from, to |-> text.to]]
    ELSE [Failed(op, "out_of_range", dev) EXCEPT !.log = [NoLog EXCEPT !.len = len]]

\* clReleaseKernel / clReleaseProgram / clReleaseMemObject on a handle: a live
\* handle is released, on any other handle the call only logs an error
Release(h) == IF h = "live" THEN "released" ELSE h

\* the failed checks on a calculation identifier (unknown, wrong size, disposed)
BadId == {"IdUnknown", "SizeMismatch", "Disposed"}

\* the device handles of the variates pool
VariatesKernels ==
    {"variatesKernelSeedInit_", "variatesKernelTwist_", "variatesKernelGenerate_"}

VariatesHandleNames ==
    {"variatesProgram_", "variatesMtStateBuffer_", "variatesPool_"} \cup VariatesKernels

\* the state after construction on a device whose double precision support is one of
\* devices, but for the flags and handles of init()
Constructed(devices) ==
    /\ size_ = <<>> /\ disposed_ = <<>> /\ hasKernel_ = <<>> /\ version_ = <<>>
    /\ program_ = <<>> /\ kernel_ = <<>> /\ inputBufferSize_ = <<>> /\ nOutputVars_ = <<>>
    /\ variatesPoolSize_ = 0
    /\ variatesHandles = [name \in VariatesHandleNames |-> "null"]
    /\ variatesPool = NoPool
    /\ currentId_ = 0
    /\ currentState_ = "idle"
    /\ nVars_ \in {0, 1}          \* not initialised by the constructor
    /\ nVariates_ \in {0, 1}      \* not initialised by the constructor
    /\ settings_ \in OneSeed
    /\ inputVarOffset_ = <<>> /\ inputVarIsScalar_ = <<>>
    /\ inputVarValues32_ = 0 /\ inputVarValues64_ = 0
    /\ freedVariables_ = <<>> /\ outputVariables_ = <<>> /\ currentSsa_ = <<>>
    /\ supportsDoublePrecision_ \in devices
    /\ builtSource = <<>>
    /\ undefinedBehaviour = FALSE
    /\ ret = Returned("construct", {})
    /\ finalizedOk = <<>>
    /\ everFinalized = {} /\ nDeclared = 0 /\ issuedIds = {} /\ inSequence = TRUE /\ nCalls = 0
    /\ liveIds = {} /\ freeCalled = FALSE

\* a Context that init() has initialised
InitOf(devices) ==
    /\ Constructed(devices)
    /\ healthy_ = TRUE /\ initialized_ = TRUE
    /\ context_ = "live" /\ queue_ = "live"

\* a Context on a device with double precision
Init == InitOf({TRUE})

\* a Context before its first init(): context_ and queue_ are not initialised by the
\* constructor
InitConstructed ==
    /\ Constructed({TRUE})
    /\ healthy_ = TRUE /\ initialized_ = FALSE
    /\ context_ = "uninit" /\ queue_ = "uninit"

\* --------------------------------------------------------------------- init
\* the retry loop, for (attempt = 0; attempt < 10 && err != CL_SUCCESS; ++attempt),
\* on a device that fails the first failures creations: the creations made, whether
\* err is CL_SUCCESS after the loop, and context_
RECURSIVE CreateContextLoop(_, _, _, _)
CreateContextLoop(attempt, errOk, context, failures) ==
    IF attempt < InitAttempts /\ ~errOk
    THEN CreateContextLoop(attempt + 1, attempt >= failures,
                           IF attempt >= failures THEN "live" ELSE "null", failures)
    ELSE [attempts |-> attempt, ok |-> errOk, context |-> context]

\* what a device call on a handle that was never initialised can do
IndeterminateHandleUse == {"error", "crash", "run"}

\* healthy_ = initialized_ = true
InitSucceeded == [healthy |-> TRUE, initialized |-> TRUE]

\* errOk: the value err holds before its first assignment is CL_SUCCESS;
\* queueFail: the creation of the command queue fails; use: what the creation of
\* the queue does on the context_ no attempt has assigned
InitContext(errOk, failures, queueFail, use) ==
    /\ ~undefinedBehaviour
    /\ UNCHANGED <<records, variatesPoolSize_, variatesHandles, variatesPool, currentId_, currentState_,
                   settings_, scratch, supportsDoublePrecision_, builtSource, history,
                   idHistory>>
    /\ IF ~healthy_
       THEN /\ ret' = Failed("init", "Unhealthy", {})
            /\ UNCHANGED <<device, undefinedBehaviour>>
       ELSE IF initialized_
       THEN /\ ret' = Returned("init", {})
            /\ UNCHANGED <<device, undefinedBehaviour>>
       ELSE LET loop == CreateContextLoop(0, errOk, context_, failures)
                made == IF loop.attempts > 0 THEN {"createContext"} ELSE {}
            IN  /\ context_' = loop.context
                /\ IF ~loop.ok
                   THEN /\ healthy_' = FALSE
                        /\ ret' = [Failed("init", "createContext", made)
                                       EXCEPT !.attempts = loop.attempts]
                        /\ UNCHANGED <<initialized_, queue_, undefinedBehaviour>>
                   ELSE IF loop.context = "uninit" /\ use = "crash"
                   THEN \* undefined behaviour: the queue is created on an indeterminate context_
                        /\ undefinedBehaviour' = TRUE
                        /\ healthy_' = FALSE
                        /\ ret' = [Failed("init", "crash", made \cup {"createCommandQueue"})
                                       EXCEPT !.attempts = loop.attempts]
                        /\ UNCHANGED <<initialized_, queue_>>
                   ELSE IF \/ loop.context = "uninit" /\ use = "error"
                           \/ loop.context = "live" /\ queueFail
                   THEN /\ healthy_' = FALSE
                        /\ queue_' = "null"
                        /\ ret' = [Failed("init", "createCommandQueue",
                                           made \cup {"createCommandQueue"})
                                       EXCEPT !.attempts = loop.attempts]
                        /\ UNCHANGED <<initialized_, undefinedBehaviour>>
                   ELSE /\ healthy_' = InitSucceeded.healthy
                        /\ initialized_' = InitSucceeded.initialized
                        /\ queue_' = "live"
                        /\ ret' = [Returned("init", made \cup {"createCommandQueue",
                                                               "runHealthChecks"})
                                       EXCEPT !.attempts = loop.attempts]
                        /\ UNCHANGED undefinedBehaviour

\* ------------------------------------------------------ initiateCalculation
\* the checks without the one on disposed_
InitiateIdErrorNoDisposed(n, id) ==
    IF id > Len(hasKernel_) THEN "IdUnknown"
    ELSE IF size_[id] # n THEN "SizeMismatch"
    ELSE "none"

\* the checks made on an existing id, in the order of the code
InitiateIdError(n, id) ==
    IF id > Len(hasKernel_) THEN "IdUnknown"
    ELSE IF size_[id] # n THEN "SizeMismatch"
    ELSE IF disposed_[id] THEN "Disposed"
    ELSE "none"

\* a comparison that never sees a change of version
VersionDiffersNever(id, version) == FALSE

VersionDiffers(id, version) == version # version_[id]

\* the index of the new record instead of its 1-based id
NewCalcIdZeroBased == Len(hasKernel_)

\* currentId_ = hasKernel_.size() after the push_back
NewCalcId == Len(hasKernel_) + 1

\* a reset that is done whether or not the calculation is new
ResetAlways(newCalc, current, empty) == empty

\* the part of the reset that is done for a new calculation only
ResetIfNewCalc(newCalc, current, empty) == IF newCalc THEN empty ELSE current

\* the lines of the ssa text that were streamed before a change of the version
\* of calculation id and are still there after it
Predating(ssa, id) == [i \in 1..Len(ssa) |-> [ssa[i] EXCEPT !.pre = @ \cup {id}]]

\* reset variable info and set the state, common to both branches
InitiateReset(n, id, version, settings, cid, newCalc) ==
    /\ currentId_' = cid
    /\ nVars_' = 0
    /\ inputVarOffset_' = <<>>
    /\ inputVarIsScalar_' = <<>>
    /\ inputVarValues32_' = 0
    /\ inputVarValues64_' = 0
    /\ freedVariables_' = ResetIfNewCalc(newCalc, freedVariables_, <<>>)
    /\ outputVariables_' = ResetIfNewCalc(newCalc, outputVariables_, <<>>)
    /\ nVariates_' = ResetIfNewCalc(newCalc, nVariates_, 0)
    /\ currentSsa_' = IF id # 0 /\ newCalc
                      THEN Predating(ResetIfNewCalc(newCalc, currentSsa_, <<>>), id)
                      ELSE ResetIfNewCalc(newCalc, currentSsa_, <<>>)
    /\ currentState_' = "createInput"
    /\ nDeclared' = 0
    /\ liveIds' = {}
    /\ freeCalled' = FALSE
    /\ inSequence' = (inSequence /\ currentState_ = "idle")
    /\ ret' = [Returned("initiateCalculation", {}) EXCEPT !.id = cid, !.fresh = newCalc]

InitiateNew(n, id, version, settings) ==
    /\ size_' = Append(size_, n)
    /\ disposed_' = Append(disposed_, FALSE)
    /\ hasKernel_' = Append(hasKernel_, FALSE)
    /\ version_' = Append(version_, version)
    /\ program_' = Append(program_, "null")
    /\ kernel_' = Append(kernel_, "null")
    /\ inputBufferSize_' = Append(inputBufferSize_, 0)
    /\ nOutputVars_' = Append(nOutputVars_, 0)
    /\ builtSource' = Append(builtSource, NoSource)
    /\ finalizedOk' = Append(finalizedOk, FALSE)
    /\ issuedIds' = issuedIds \cup {NewCalcId}
    /\ InitiateReset(n, id, version, settings, NewCalcId, TRUE)

InitiateExisting(n, id, version, settings) ==
    LET newCalc == VersionDiffers(id, version) IN
    /\ IF newCalc
       THEN /\ hasKernel_' = [hasKernel_ EXCEPT ![id] = FALSE]
            /\ version_' = [version_ EXCEPT ![id] = version]
            /\ kernel_' = [kernel_ EXCEPT ![id] = Release(@)]
            /\ program_' = [program_ EXCEPT ![id] = Release(@)]
            /\ finalizedOk' = [finalizedOk EXCEPT ![id] = FALSE]
       ELSE UNCHANGED <<hasKernel_, version_, kernel_, program_, finalizedOk>>
    /\ UNCHANGED <<size_, disposed_, inputBufferSize_, nOutputVars_, builtSource, issuedIds>>
    /\ InitiateReset(n, id, version, settings, id, newCalc)

InitiateCalculation(n, id, version, settings) ==
    /\ ~undefinedBehaviour
    /\ IF n = 0
       THEN /\ ret' = Failed("initiateCalculation", "NIsZero", {})
            /\ UNCHANGED <<records, variatesPoolSize_, variatesHandles, variatesPool, currentId_, currentState_, settings_,
                           scratch, supportsDoublePrecision_, device, builtSource,
                           undefinedBehaviour, history, idHistory>>
       ELSE /\ settings_' = settings
            /\ UNCHANGED <<variatesPoolSize_, variatesHandles, variatesPool, supportsDoublePrecision_, device, undefinedBehaviour,
                           everFinalized>>
            /\ IF id = 0
               THEN InitiateNew(n, id, version, settings)
               ELSE IF InitiateIdError(n, id) # "none"
               THEN /\ ret' = Failed("initiateCalculation",
                                     InitiateIdError(n, id), {})
                    /\ UNCHANGED <<records, currentId_, currentState_, scratch, builtSource,
                                   finalizedOk, nDeclared, issuedIds, inSequence,
                                   idHistory>>
               ELSE InitiateExisting(n, id, version, settings)

\* ------------------------------------------------------- disposeCalculation
\* disposed_[id - 1] with id = 0 or id > size reads outside the vector
DisposeIdKnown(id) == id >= 1 /\ id <= Len(disposed_)

\* the record keeps its flag
MarkDisposedNever(id) == disposed_

\* disposed_[id - 1] = true
MarkDisposed(id) == [disposed_ EXCEPT ![id] = TRUE]

DisposeCalculation(id) ==
    /\ ~undefinedBehaviour
    /\ UNCHANGED <<size_, hasKernel_, version_, inputBufferSize_, nOutputVars_,
                   variatesPoolSize_, variatesHandles, variatesPool, currentId_, currentState_, settings_, scratch,
                   supportsDoublePrecision_, device, builtSource, history, idHistory>>
    /\ IF ~DisposeIdKnown(id)
       THEN \* undefined behaviour: the bit read is arbitrary; the call throws when
            \* it reads true, and writes outside the vector otherwise
            \E bit \in BOOLEAN :
                /\ undefinedBehaviour' = ~bit
                /\ ret' = IF bit THEN Failed("disposeCalculation", "Disposed", {})
                                 ELSE Returned("disposeCalculation", {})
                /\ UNCHANGED <<disposed_, kernel_, program_>>
       ELSE IF disposed_[id]
       THEN /\ ret' = Failed("disposeCalculation", "Disposed", {})
            /\ UNCHANGED <<disposed_, kernel_, program_, undefinedBehaviour>>
       ELSE /\ disposed_' = MarkDisposed(id)
            /\ kernel_' = [kernel_ EXCEPT ![id] = Release(@)]
            /\ program_' = [program_ EXCEPT ![id] = Release(@)]
            /\ ret' = Returned("disposeCalculation", {})
            /\ UNCHANGED undefinedBehaviour

\* ------------------------------------------------------ createInputVariable
CreateInputStateOk(st) == st = "createInput"

\* nextOffset: 0 for the first input, else the last offset plus the last input's slots
NextOffset ==
    IF inputVarOffset_ = <<>> THEN 0
    ELSE inputVarOffset_[Len(inputVarOffset_)]
         + (IF inputVarIsScalar_[Len(inputVarIsScalar_)] THEN 1 ELSE size_[currentId_])

\* both overloads: a scalar stores one value, a vector size_[currentId_ - 1] values
CreateInputVariable(isScalar) ==
    /\ ~undefinedBehaviour
    /\ UNCHANGED <<records, variatesPoolSize_, variatesHandles, variatesPool, currentId_, currentState_, settings_,
                   nVariates_, freedVariables_, outputVariables_, currentSsa_,
                   supportsDoublePrecision_, device, builtSource, undefinedBehaviour, history,
                   freeCalled>>
    /\ IF ~CreateInputStateOk(currentState_)
       THEN /\ ret' = Failed("createInputVariable", "BadState", {})
            /\ UNCHANGED <<nVars_, inputVars, liveIds>>
       ELSE LET k == IF isScalar THEN 1 ELSE size_[currentId_] IN
            /\ inputVarOffset_' = Append(inputVarOffset_, NextOffset)
            /\ inputVarIsScalar_' = Append(inputVarIsScalar_, isScalar)
            /\ inputVarValues64_' = inputVarValues64_ + (IF settings_.useDoublePrecision THEN k ELSE 0)
            /\ inputVarValues32_' = inputVarValues32_ + (IF settings_.useDoublePrecision THEN 0 ELSE k)
            /\ nVars_' = nVars_ + 1
            /\ ret' = [Returned("createInputVariable", {}) EXCEPT !.id = nVars_]
            /\ liveIds' = liveIds \cup {nVars_}

\* -------------------------------------------------------- updateVariatesPool
AlignedSize(demand) == mt_N * (demand \div mt_N + (IF demand % mt_N = 0 THEN 0 ELSE 1))

\* the value of currentPoolSize when the fill loop ends
RECURSIVE FillEnd(_, _)
FillEnd(currentPoolSize, demand) ==
    IF currentPoolSize < demand THEN FillEnd(currentPoolSize + mt_N, demand) ELSE currentPoolSize

\* device API calls of the first request / of a growth, in the order of the code
PoolFirstSteps == <<"createProgram", "buildProgram", "createKernel", "createStateBuffer",
                    "setSeedArgs", "enqueueSeedInit">>

PoolGrowSteps(copy) ==
    <<"createPoolBuffer">> \o (IF copy THEN <<"copyBuffer">> ELSE <<>>)
        \o <<"setTwistArgs", "enqueueTwist", "setGenerateArgs", "enqueueGenerate", "waitEvents">>

PoolFailSteps == {"none", "createProgram", "buildProgram", "createKernel", "createStateBuffer",
                  "setSeedArgs", "enqueueSeedInit", "createPoolBuffer", "copyBuffer",
                  "setTwistArgs", "enqueueTwist", "setGenerateArgs", "enqueueGenerate"}

Range(s) == {s[i] : i \in 1..Len(s)}

\* the steps of a sequence up to and including the failing one (all when none fails)
Upto(steps, f) ==
    IF f \in Range(steps)
    THEN {steps[i] : i \in {j \in 1..Len(steps) : \A k \in 1..(j - 1) : steps[k] # f}}
    ELSE Range(steps)

\* fpTypeStr of updateVariatesPool(), applyOperation() and finalizeCalculation()
FpTypeStr == IF settings_.useDoublePrecision THEN "double" ELSE "float"

\* the content after the steps of a first request that fails at step f: the program
\* is built for the precision of settings_, the new state buffer is seeded with
\* settings_.rngSeed
PoolSeeded(f) ==
    LET i == CHOOSE k \in 1..(Len(PoolFirstSteps) + 1) :
                 k = Len(PoolFirstSteps) + 1 \/ PoolFirstSteps[k] = f
        done == {PoolFirstSteps[k] : k \in 1..(i - 1)}
    IN  [fp |-> IF "buildProgram" \in done THEN FpTypeStr
                ELSE IF "createProgram" \in done \/ f = "createProgram" THEN "none"
                ELSE variatesPool.fp,
         seed |-> IF "enqueueSeedInit" \in done THEN settings_.rngSeed
                  ELSE IF "createStateBuffer" \in done \/ f = "createStateBuffer" THEN 0
                  ELSE variatesPool.seed,
         twists |-> IF "createStateBuffer" \in done \/ f = "createStateBuffer" THEN 0
                    ELSE variatesPool.twists,
         blocks |-> variatesPool.blocks]

\* a growth that does not copy the old buffer
PoolGrownNoCopy(c, demand, f) ==
    LET old == variatesPoolSize_ \div mt_N
        new == AlignedSize(demand) \div mt_N
        copied == FALSE
        filled == f \notin Range(PoolGrowSteps(TRUE))
        twisted == IF filled THEN new - old
                   ELSE IF f \in {"setGenerateArgs", "enqueueGenerate"} THEN 1 ELSE 0
    IN  IF f = "createPoolBuffer" THEN [c EXCEPT !.blocks = <<>>]
        ELSE [c EXCEPT !.twists = c.twists + twisted,
                       !.blocks = [b \in 1..new |->
                                      IF b <= old
                                      THEN (IF copied /\ b <= Len(c.blocks) THEN c.blocks[b] ELSE 0)
                                      ELSE IF filled THEN c.twists + (b - old) ELSE 0]]

\* the content after a growth of the pool c to demand that fails at step f: a new
\* buffer, the copy of the old one, and one twist and one generated block per
\* iteration of the fill loop
PoolGrown(c, demand, f) ==
    LET old == variatesPoolSize_ \div mt_N
        new == AlignedSize(demand) \div mt_N
        copied == variatesPoolSize_ > 0 /\ f # "copyBuffer"
        filled == f \notin Range(PoolGrowSteps(TRUE))
        twisted == IF filled THEN new - old
                   ELSE IF f \in {"setGenerateArgs", "enqueueGenerate"} THEN 1 ELSE 0
    IN  IF f = "createPoolBuffer" THEN [c EXCEPT !.blocks = <<>>]
        ELSE [c EXCEPT !.twists = c.twists + twisted,
                       !.blocks = [b \in 1..new |->
                                      IF b <= old
                                      THEN (IF copied /\ b <= Len(c.blocks) THEN c.blocks[b] ELSE 0)
                                      ELSE IF filled THEN c.twists + (b - old) ELSE 0]]

\* the step at which a request fails: the step f at which the device fails, or the
\* copy of a pool buffer that an earlier request has left without a live handle
PoolFailsAt(f) ==
    IF /\ variatesPoolSize_ > 0 /\ variatesHandles["variatesPool_"] # "live"
       /\ f # "createPoolBuffer"
    THEN "copyBuffer" ELSE f

\* the command enqueued before the fill loop: the seed initialisation of a first
\* request, the copy of the old buffer into the new one of a later request
PoolBase ==
    IF variatesPoolSize_ = 0 THEN Command("seedInit", 1, 0, 0, {})
    ELSE Command("copy", 0, 0, variatesPoolSize_, {})

\* the number of iterations of the fill loop
FillIterations(demand) == (FillEnd(variatesPoolSize_, demand) - variatesPoolSize_) \div mt_N

\* the k-th command of the fill loop, at position 1 + k of the queue: iteration j
\* enqueues its twist (k = 2j - 1) and its generate (k = 2j). The twist waits for
\* initEvent (position 1) when variatesPoolSize_ == 0, else for the generateEvent of
\* iteration j - 1 (position k) when haveGenerated, else for nothing; the generate
\* waits for its twistEvent (position k) and writes mt_N values from currentPoolSize on
FillCommand(k) ==
    LET j == (k + 1) \div 2
        haveGenerated == j > 1
        currentPoolSize == variatesPoolSize_ + (j - 1) * mt_N
    IN  IF k % 2 = 1
        THEN Command("twist", mt_N, 0, 0,
                     IF variatesPoolSize_ = 0 THEN {1}
                     ELSE IF haveGenerated THEN {k} ELSE {})
        ELSE Command("generate", mt_N, currentPoolSize, currentPoolSize + mt_N, {k})

\* the commands of a growth to demand that fails at step g, and the events of
\* waitList
PoolCommands(demand, g) ==
    LET fill == IF g \in {"createPoolBuffer", "copyBuffer", "setTwistArgs", "enqueueTwist"}
                THEN 0
                ELSE IF g \in {"setGenerateArgs", "enqueueGenerate"} THEN 1
                ELSE 2 * FillIterations(demand)
        base == IF g = "copyBuffer" \/ (g = "createPoolBuffer" /\ variatesPoolSize_ > 0)
                THEN <<>> ELSE <<PoolBase>>
    IN  [queue |-> base \o [k \in 1..fill |-> FillCommand(k)],
         waited |-> IF g \in Range(PoolGrowSteps(TRUE)) THEN {}
                    ELSE (IF variatesPoolSize_ > 0 THEN {1} ELSE {})
                         \cup (IF fill > 0 THEN {1 + fill} ELSE {})]

\* updateVariatesPool() with a pool of exactly the demanded size
UpdateVariatesPoolUnaligned(nv, f) ==
    LET demand == nv * size_[currentId_]
        first == variatesPoolSize_ = 0
        firstDev == IF first THEN Upto(PoolFirstSteps, f) ELSE {}
        grow == PoolGrowSteps(variatesPoolSize_ > 0)
        seeded == IF first THEN PoolSeeded(f) ELSE variatesPool
        g == PoolFailsAt(f)
    IN  IF nv = 0
        THEN [ok |-> FALSE, err |-> "NoVariates", size |-> variatesPoolSize_, dev |-> {},
              pool |-> variatesPool, cmds |-> NoCommands]
        ELSE IF first /\ f \in Range(PoolFirstSteps)
        THEN [ok |-> FALSE, err |-> f, size |-> variatesPoolSize_, dev |-> firstDev,
              pool |-> seeded, cmds |-> NoCommands]
        ELSE IF variatesPoolSize_ >= demand
        THEN [ok |-> TRUE, err |-> "none", size |-> variatesPoolSize_, dev |-> firstDev,
              pool |-> seeded,
              cmds |-> IF first THEN [queue |-> <<PoolBase>>, waited |-> {1}] ELSE NoCommands]
        ELSE IF g \in Range(grow)
        THEN [ok |-> FALSE, err |-> g, size |-> variatesPoolSize_,
              dev |-> firstDev \cup Upto(grow, g), pool |-> PoolGrown(seeded, demand, g),
              cmds |-> PoolCommands(demand, g)]
        ELSE IF FillEnd(variatesPoolSize_, demand) # AlignedSize(demand)
        THEN [ok |-> FALSE, err |-> "SizeMismatch", size |-> variatesPoolSize_,
              dev |-> firstDev \cup Range(grow), pool |-> PoolGrown(seeded, demand, g),
              cmds |-> PoolCommands(demand, g)]
        ELSE [ok |-> TRUE, err |-> "none", size |-> demand,
              dev |-> firstDev \cup Range(grow), pool |-> PoolGrown(seeded, demand, g),
              cmds |-> PoolCommands(demand, g)]

\* the outcome of updateVariatesPool() for nv variates when the device fails at
\* step f: whether it returns, the failed check, the pool size afterwards, the
\* device API calls made and the content of the pool
UpdateVariatesPool(nv, f) ==
    LET demand == nv * size_[currentId_]
        first == variatesPoolSize_ = 0
        firstDev == IF first THEN Upto(PoolFirstSteps, f) ELSE {}
        grow == PoolGrowSteps(variatesPoolSize_ > 0)
        seeded == IF first THEN PoolSeeded(f) ELSE variatesPool
        g == PoolFailsAt(f)
    IN  IF nv = 0
        THEN [ok |-> FALSE, err |-> "NoVariates", size |-> variatesPoolSize_, dev |-> {},
              pool |-> variatesPool, cmds |-> NoCommands]
        ELSE IF first /\ f \in Range(PoolFirstSteps)
        THEN [ok |-> FALSE, err |-> f, size |-> variatesPoolSize_, dev |-> firstDev,
              pool |-> seeded, cmds |-> NoCommands]
        ELSE IF variatesPoolSize_ >= demand
        THEN [ok |-> TRUE, err |-> "none", size |-> variatesPoolSize_, dev |-> firstDev,
              pool |-> seeded,
              cmds |-> IF first THEN [queue |-> <<PoolBase>>, waited |-> {1}] ELSE NoCommands]
        ELSE IF g \in Range(grow)
        THEN [ok |-> FALSE, err |-> g, size |-> variatesPoolSize_,
              dev |-> firstDev \cup Upto(grow, g), pool |-> PoolGrown(seeded, demand, g),
              cmds |-> PoolCommands(demand, g)]
        ELSE IF FillEnd(variatesPoolSize_, demand) # AlignedSize(demand)
        THEN [ok |-> FALSE, err |-> "SizeMismatch", size |-> variatesPoolSize_,
              dev |-> firstDev \cup Range(grow), pool |-> PoolGrown(seeded, demand, g),
              cmds |-> PoolCommands(demand, g)]
        ELSE [ok |-> TRUE, err |-> "none", size |-> FillEnd(variatesPoolSize_, demand),
              dev |-> firstDev \cup Range(grow), pool |-> PoolGrown(seeded, demand, g),
              cmds |-> PoolCommands(demand, g)]

\* the device API call that assigns a handle of the pool
CreatedBy(name) ==
    CASE name = "variatesProgram_" -> "createProgram"
      [] name \in VariatesKernels -> "createKernel"
      [] name = "variatesMtStateBuffer_" -> "createStateBuffer"
      [] name = "variatesPool_" -> "createPoolBuffer"

\* the handles after the request with outcome pool: a create call assigns its result
\* to the member before the error is checked, a null handle when it fails; of the
\* three kernels the first is the one whose creation fails
PoolHandles(pool) ==
    [name \in VariatesHandleNames |->
        IF CreatedBy(name) \notin pool.dev THEN variatesHandles[name]
        ELSE IF pool.err # CreatedBy(name) THEN "live"
        ELSE IF name \in VariatesKernels \ {"variatesKernelSeedInit_"}
        THEN variatesHandles[name]
        ELSE "null"]

\* ------------------------------------------------------ createInputVariates
CreateVariatesStateOk(st) == st \in {"createInput", "createVariates"}

\* resultIds[i][j] = nVars_++ with j (steps) the outer and i (dim) the inner loop
VariateIds(dim, steps) ==
    [i \in 1..dim |-> [j \in 1..steps |-> nVars_ + (j - 1) * dim + (i - 1)]]

CreateInputVariates(dim, steps, f) ==
    /\ ~undefinedBehaviour
    /\ UNCHANGED <<records, currentId_, settings_, inputVars, freedVariables_,
                   outputVariables_, currentSsa_, supportsDoublePrecision_, device, builtSource,
                   undefinedBehaviour, history, freeCalled>>
    /\ IF ~CreateVariatesStateOk(currentState_)
       THEN /\ ret' = Failed("createInputVariates", "BadState", {})
            /\ UNCHANGED <<currentState_, nVars_, nVariates_, variatesPoolSize_, variatesHandles, variatesPool, liveIds>>
       ELSE IF currentId_ = 0
       THEN /\ ret' = Failed("createInputVariates", "IdNotSet", {})
            /\ UNCHANGED <<currentState_, nVars_, nVariates_, variatesPoolSize_, variatesHandles, variatesPool, liveIds>>
       ELSE IF hasKernel_[currentId_]
       THEN /\ ret' = Failed("createInputVariates", "HasKernel", {})
            /\ UNCHANGED <<currentState_, nVars_, nVariates_, variatesPoolSize_, variatesHandles, variatesPool, liveIds>>
       ELSE LET pool == UpdateVariatesPool(nVariates_ + dim * steps, f) IN
            /\ currentState_' = "createVariates"
            /\ nVars_' = nVars_ + dim * steps
            /\ nVariates_' = nVariates_ + dim * steps
            /\ variatesPoolSize_' = pool.size
            /\ variatesHandles' = PoolHandles(pool)
            /\ variatesPool' = pool.pool
            /\ IF pool.ok
               THEN ret' = [Returned("createInputVariates", pool.dev)
                                EXCEPT !.ids = VariateIds(dim, steps), !.cmds = pool.cmds]
               ELSE IF pool.err = "buildProgram"
               THEN \E len \in BuildLogLengths :
                       ret' = BuildFailure("createInputVariates", len, pool.dev)
               ELSE ret' = [Failed("createInputVariates", pool.err, pool.dev)
                                EXCEPT !.cmds = pool.cmds]
            /\ liveIds' = IF pool.ok
                          THEN liveIds \cup {nVars_ + k : k \in 0..(dim * steps - 1)}
                          ELSE liveIds

\* ----------------------------------------------------------- applyOperation
RandomVariableOpCode ==
    {"None", "Add", "Subtract", "Negative", "Mult", "Div", "IndicatorEq", "IndicatorGt",
     "IndicatorGeq", "Min", "Max", "Abs", "Exp", "Sqrt", "Log", "Pow"}

\* the number of arguments the emitted right-hand side reads
OpArity(op) ==
    IF op \in {"Add", "Subtract", "Mult", "Div", "IndicatorEq", "IndicatorGt",
               "IndicatorGeq", "Min", "Max", "Pow"} THEN 2
    ELSE IF op \in {"Negative", "Abs", "Exp", "Sqrt", "Log"} THEN 1
    ELSE 0

ApplyStateOk(st) == st \in {"createInput", "createVariates", "calc"}

\* argStr[i]: input[<offset>U] / input[<offset>U + i] / rn[<k>U + i] / v<id>
ArgStr(a) ==
    IF a < Len(inputVarOffset_)
    THEN <<"input", inputVarOffset_[a + 1], IF inputVarIsScalar_[a + 1] THEN "]" ELSE " + i]">>
    ELSE IF a < Len(inputVarOffset_) + nVariates_
    THEN <<"rn", (a - Len(inputVarOffset_)) * size_[currentId_], " + i]">>
    ELSE <<"v", a>>

\* the text appended to "v<resultId> = " by the switch over the op code
Rhs(op, args) ==
    LET a == [i \in 1..Len(args) |-> ArgStr(args[i])] IN
    CASE op = "None" -> <<>>
      [] op = "Add" -> <<a[1], " + ", a[2], ";">>
      [] op = "Subtract" -> <<a[1], " - ", a[2], ";">>
      [] op = "Negative" -> <<"-", a[1], ";">>
      [] op = "Mult" -> <<a[1], " * ", a[2], ";">>
      [] op = "Div" -> <<a[1], " / ", a[2], ";">>
      [] op = "IndicatorEq" -> <<"ore_indicatorEq(", a[1], ",", a[2], ");">>
      [] op = "IndicatorGt" -> <<"ore_indicatorGt(", a[1], ",", a[2], ");">>
      [] op = "IndicatorGeq" -> <<"ore_indicatorGeq(", a[1], ",", a[2], ");">>
      [] op = "Min" -> <<"fmin(", a[1], ",", a[2], ");">>
      [] op = "Max" -> <<"fmax(", a[1], ",", a[2], ");">>
      [] op = "Abs" -> <<"fabs(", a[1], ");">>
      [] op = "Exp" -> <<"exp(", a[1], ");">>
      [] op = "Sqrt" -> <<"sqrt(", a[1], ");">>
      [] op = "Log" -> <<"log(", a[1], ");">>
      [] op = "Pow" -> <<"pow(", a[1], ",", a[2], ");">>

\* one line of currentSsa_: the type prefix (empty for a recycled id), the result
\* variable, the right-hand side and the argStr it was put together from; pre records
\* the calculations whose version was changed after the line was streamed
SsaLine(needsDeclaration, resultId, op, args) ==
    [decl |-> IF needsDeclaration THEN FpTypeStr ELSE "", v |-> resultId,
     rhs |-> Rhs(op, args), argStr |-> [i \in 1..Len(args) |-> ArgStr(args[i])],
     pre |-> {}]

ApplyOperation(op, args) ==
    /\ ~undefinedBehaviour
    /\ UNCHANGED <<records, variatesPoolSize_, variatesHandles, variatesPool, currentId_, settings_, nVariates_, inputVars,
                   outputVariables_, supportsDoublePrecision_, device, builtSource,
                   undefinedBehaviour, history, freeCalled>>
    /\ IF ~ApplyStateOk(currentState_)
       THEN /\ ret' = Failed("applyOperation", "BadState", {})
            /\ UNCHANGED <<currentState_, nVars_, freedVariables_, currentSsa_, liveIds>>
       ELSE /\ currentState_' = "calc"
            /\ IF currentId_ = 0
               THEN /\ ret' = Failed("applyOperation", "IdNotSet", {})
                    /\ UNCHANGED <<nVars_, freedVariables_, currentSsa_, liveIds>>
               ELSE IF hasKernel_[currentId_]
               THEN /\ ret' = Failed("applyOperation", "HasKernel", {})
                    /\ UNCHANGED <<nVars_, freedVariables_, currentSsa_, liveIds>>
               ELSE LET recycle == freedVariables_ # <<>>
                        resultId == IF recycle THEN freedVariables_[Len(freedVariables_)]
                                    ELSE nVars_
                    IN  /\ freedVariables_' = IF recycle
                                              THEN SubSeq(freedVariables_, 1, Len(freedVariables_) - 1)
                                              ELSE freedVariables_
                        /\ nVars_' = IF recycle THEN nVars_ ELSE nVars_ + 1
                        /\ IF op \in RandomVariableOpCode
                           THEN /\ currentSsa_' = Append(currentSsa_,
                                                         SsaLine(~recycle, resultId, op, args))
                                /\ ret' = [Returned("applyOperation", {}) EXCEPT !.id = resultId]
                                /\ liveIds' = liveIds \cup {resultId}
                           ELSE /\ ret' = Failed("applyOperation", "UnknownOpcode", {})
                                /\ UNCHANGED <<currentSsa_, liveIds>>

\* ------------------------------------------------------------- freeVariable
\* a check that only excludes idle
FreeStateOkAnyActive(st) == st # "idle"

FreeStateOk(st) == st = "calc"

FreeVariable(id) ==
    /\ ~undefinedBehaviour
    /\ UNCHANGED <<records, variatesPoolSize_, variatesHandles, variatesPool, currentId_, currentState_, settings_, nVars_,
                   nVariates_, inputVars, outputVariables_, currentSsa_,
                   supportsDoublePrecision_, device, builtSource, undefinedBehaviour, history>>
    /\ IF ~FreeStateOk(currentState_)
       THEN /\ ret' = Failed("freeVariable", "BadState", {})
            /\ UNCHANGED <<freedVariables_, idHistory>>
       ELSE IF currentId_ = 0
       THEN /\ ret' = Failed("freeVariable", "IdNotSet", {})
            /\ UNCHANGED <<freedVariables_, idHistory>>
       ELSE IF hasKernel_[currentId_]
       THEN /\ ret' = Failed("freeVariable", "HasKernel", {})
            /\ UNCHANGED <<freedVariables_, idHistory>>
       ELSE LET kept == id < Len(inputVarOffset_) + nVariates_ IN
            /\ freedVariables_' = IF kept THEN freedVariables_
                                  ELSE Append(freedVariables_, id)
            /\ liveIds' = IF kept THEN liveIds ELSE liveIds \ {id}
            /\ freeCalled' = TRUE
            /\ ret' = Returned("freeVariable", {})

\* ---------------------------------------------------- declareOutputVariable
DeclareStateOk(st) == st # "idle"

DeclareOutputVariable(id) ==
    /\ ~undefinedBehaviour
    /\ UNCHANGED <<size_, disposed_, hasKernel_, version_, program_, kernel_,
                   inputBufferSize_, variatesPoolSize_, variatesHandles, variatesPool, currentId_, currentState_,
                   settings_, nVars_, nVariates_, inputVars, freedVariables_, currentSsa_,
                   supportsDoublePrecision_, device, builtSource, undefinedBehaviour,
                   finalizedOk, everFinalized, issuedIds, inSequence, idHistory>>
    /\ IF ~DeclareStateOk(currentState_)
       THEN /\ ret' = Failed("declareOutputVariable", "BadState", {})
            /\ UNCHANGED <<outputVariables_, nOutputVars_, nDeclared>>
       ELSE IF currentId_ = 0
       THEN /\ ret' = Failed("declareOutputVariable", "IdNotSet", {})
            /\ UNCHANGED <<outputVariables_, nOutputVars_, nDeclared>>
       ELSE IF hasKernel_[currentId_]
       THEN /\ ret' = Failed("declareOutputVariable", "HasKernel", {})
            /\ UNCHANGED <<outputVariables_, nOutputVars_, nDeclared>>
       ELSE /\ outputVariables_' = Append(outputVariables_, id)
            /\ nOutputVars_' = [nOutputVars_ EXCEPT ![currentId_] = @ + 1]
            /\ nDeclared' = nDeclared + 1
            /\ ret' = Returned("declareOutputVariable", {})

\* ------------------------------------------------------- finalizeCalculation
\* a guard that does not restore the state
ExitGuardStateKept(st) == st

\* exitGuard: the state the destructor of the guard leaves
ExitGuardState(st) == "idle"

InputBufferSize ==
    IF inputVarOffset_ = <<>> THEN 0
    ELSE inputVarOffset_[Len(inputVarOffset_)]
         + (IF inputVarIsScalar_[Len(inputVarIsScalar_)] THEN 1 ELSE size_[currentId_])

OutputBufferSize == nOutputVars_[currentId_] * size_[currentId_]

\* the number of values in the vector the upload reads, the one of the precision of
\* settings_
ValuesStored ==
    IF settings_.useDoublePrecision THEN inputVarValues64_ ELSE inputVarValues32_

\* the upload reads inputBufferSize values from a vector that holds fewer
UploadReadsPastEnd == InputBufferSize > ValuesStored

\* a cache that is never hit
NeedsBuildAlways(id) == TRUE

NeedsBuild(id) == ~hasKernel_[id]

\* the right-hand side of an output assignment
OutputStr(o) ==
    IF o < Len(inputVarOffset_)
    THEN <<"input", o, IF inputVarIsScalar_[o + 1] THEN "]" ELSE " + i] ">>
    ELSE IF o < Len(inputVarOffset_) + nVariates_
    THEN <<"rn", (o - Len(inputVarOffset_)) * size_[currentId_], " + i]">>
    ELSE <<"v", o>>

\* the number of reads of outputVariables_[i] past its end made by the output loop
OutputReadsPastEnd ==
    IF nOutputVars_[currentId_] > Len(outputVariables_)
    THEN nOutputVars_[currentId_] - Len(outputVariables_) ELSE 0

\* the kernel source: the buffers of the signature, the work size of the guard,
\* the ssa body and the output assignments; garbage are the values read past the
\* end of outputVariables_
KernelSource(garbage) ==
    [built |-> TRUE,
     args |-> (IF InputBufferSize > 0 THEN <<"input">> ELSE <<>>)
              \o (IF nVariates_ > 0 THEN <<"rn">> ELSE <<>>)
              \o (IF OutputBufferSize > 0 THEN <<"output">> ELSE <<>>),
     n |-> size_[currentId_],
     fp |-> FpTypeStr,
     ssa |-> currentSsa_,
     out |-> [i \in 1..nOutputVars_[currentId_] |->
                <<(i - 1) * size_[currentId_],
                  OutputStr(IF i <= Len(outputVariables_) THEN outputVariables_[i]
                            ELSE garbage[i - Len(outputVariables_)])>>]]

\* whether the kernel of source src reads the variates pool
ReadsPool(src) ==
    /\ src.built
    /\ \/ \E l \in 1..Len(src.ssa) : \E a \in 1..Len(src.ssa[l].argStr) :
              src.ssa[l].argStr[a][1] = "rn"
       \/ \E o \in 1..Len(src.out) : src.out[o][2][1] = "rn"

\* what the kernel of source src finds in the pool for the variates of the calculation:
\* the seed and the precision they were generated with and, block by block, the
\* twist that generated them (0: not generated, the values are indeterminate)
PoolView(src) ==
    IF ~ReadsPool(src) \/ nVariates_ = 0 THEN NoPool
    ELSE [variatesPool EXCEPT
              !.blocks = [b \in 1..(AlignedSize(nVariates_ * size_[currentId_]) \div mt_N) |->
                             IF variatesHandles["variatesPool_"] = "live"
                                /\ b <= Len(variatesPool.blocks)
                             THEN variatesPool.blocks[b] ELSE 0]]

\* the buffers bound as kernel arguments, in positional order
KernelArgs ==
    (IF InputBufferSize > 0 THEN <<"input">> ELSE <<>>)
    \o (IF nVariates_ > 0 THEN <<"rn">> ELSE <<>>)
    \o (IF OutputBufferSize > 0 THEN <<"output">> ELSE <<>>)

\* device API calls, in the order of the code
FinalizeBufferSteps ==
    (IF InputBufferSize > 0 THEN <<"createInputBuffer">> ELSE <<>>)
    \o (IF OutputBufferSize > 0 THEN <<"createOutputBuffer">> ELSE <<>>)

FinalizeBuildSteps == <<"createProgram", "buildProgram", "createKernel">>

FinalizeRunSteps ==
    (IF InputBufferSize > 0 THEN <<"writeBuffer">> ELSE <<>>)
    \o <<"setKernelArg", "enqueueKernel">>
    \o (IF OutputBufferSize > 0 THEN <<"readBuffer", "waitEvents">> ELSE <<>>)

FinalizeFailSteps ==
    {"none", "createInputBuffer", "createOutputBuffer", "createProgram", "buildProgram",
     "createKernel", "writeBuffer", "setKernelArg", "enqueueKernel", "readBuffer",
     "waitEvents"}

\* what a use of a released kernel handle can do
ReleasedHandleUse == {"error", "crash", "run"}

\* the entry checks without the one on the device's precision
FinalizeEntryErrorAnyDevice(nOut) ==
    IF currentId_ = 0 THEN "IdNotSet"
    ELSE IF nOut # nOutputVars_[currentId_] THEN "OutputArity"
    ELSE "none"

\* the checks made before any device call
FinalizeEntryError(nOut) ==
    IF currentId_ = 0 THEN "IdNotSet"
    ELSE IF nOut # nOutputVars_[currentId_] THEN "OutputArity"
    ELSE IF settings_.useDoublePrecision /\ ~supportsDoublePrecision_ THEN "CapabilityMismatch"
    ELSE "none"

\* reads enqueued with an empty wait list
FinalizeCommandsNoRunEvent(dev, err) ==
    LET made(step) == step \in dev /\ err # step
        n == size_[currentId_]
        upload == IF made("writeBuffer")
                  THEN <<Command("write", 0, 0, InputBufferSize, {})>> ELSE <<>>
        runAt == Len(upload) + 1
        run == IF made("enqueueKernel")
               THEN <<Command("run", n, 0, OutputBufferSize,
                              IF InputBufferSize > 0 THEN {1} ELSE {})>>
               ELSE <<>>
        reads == IF made("readBuffer")
                 THEN [i \in 1..nOutputVars_[currentId_] |->
                          Command("read", 0, (i - 1) * n, (i - 1) * n + n, {})]
                 ELSE <<>>
    IN  [queue |-> upload \o run \o reads,
         waited |-> IF made("waitEvents") THEN {runAt + i : i \in 1..Len(reads)} ELSE {}]

\* the commands of a finalizeCalculation that made the device API calls dev and
\* failed at err: the upload of the input values, the kernel launch with runWaitEvents
\* (the upload's event when there is an input buffer), one read per output vector, at
\* offset i * n and waiting for runEvent, and the wait for outputBufferEvents
FinalizeCommands(dev, err) ==
    LET made(step) == step \in dev /\ err # step
        n == size_[currentId_]
        upload == IF made("writeBuffer")
                  THEN <<Command("write", 0, 0, InputBufferSize, {})>> ELSE <<>>
        runAt == Len(upload) + 1
        run == IF made("enqueueKernel")
               THEN <<Command("run", n, 0, OutputBufferSize,
                              IF InputBufferSize > 0 THEN {1} ELSE {})>>
               ELSE <<>>
        reads == IF made("readBuffer")
                 THEN [i \in 1..nOutputVars_[currentId_] |->
                          Command("read", 0, (i - 1) * n, (i - 1) * n + n, {runAt})]
                 ELSE <<>>
    IN  [queue |-> upload \o run \o reads,
         waited |-> IF made("waitEvents") THEN {runAt + i : i \in 1..Len(reads)} ELSE {}]

FinalizeFail(nOut, err, dev) ==
    /\ ret' = [Failed("finalizeCalculation", err, dev)
                   EXCEPT !.cmds = IF dev = {} THEN NoCommands ELSE FinalizeCommands(dev, err)]
    /\ UNCHANGED <<finalizedOk, everFinalized>>

\* the build of the kernel when the device fails at step f
FinalizeBuild(f, garbage) ==
    LET id == currentId_ IN
    /\ program_' = [program_ EXCEPT ![id] = IF f = "createProgram" THEN "null" ELSE "live"]
    /\ builtSource' = IF f = "createProgram" THEN builtSource
                      ELSE [builtSource EXCEPT ![id] = KernelSource(garbage)]
    /\ IF f \in {"createProgram", "buildProgram"}
       THEN UNCHANGED <<kernel_, hasKernel_, inputBufferSize_>>
       ELSE IF f = "createKernel"
       THEN /\ kernel_' = [kernel_ EXCEPT ![id] = "null"]
            /\ UNCHANGED <<hasKernel_, inputBufferSize_>>
       ELSE /\ kernel_' = [kernel_ EXCEPT ![id] = "live"]
            /\ hasKernel_' = [hasKernel_ EXCEPT ![id] = TRUE]
            /\ inputBufferSize_' = [inputBufferSize_ EXCEPT ![id] = InputBufferSize]

FinalizeCalculation(nOut, f, garbage, crash, use) ==
    /\ ~undefinedBehaviour
    /\ currentState_' = ExitGuardState(currentState_)
    /\ inSequence' = (inSequence /\ currentState_ # "idle")
    /\ UNCHANGED <<size_, disposed_, version_, nOutputVars_, variatesPoolSize_, variatesHandles, variatesPool, currentId_,
                   settings_, scratch, supportsDoublePrecision_, device, nDeclared, issuedIds,
                   idHistory>>
    /\ IF FinalizeEntryError(nOut) # "none"
       THEN /\ FinalizeFail(nOut, FinalizeEntryError(nOut), {})
            /\ UNCHANGED <<program_, kernel_, hasKernel_, inputBufferSize_, builtSource,
                           undefinedBehaviour>>
       ELSE IF f \in Range(FinalizeBufferSteps)
       THEN /\ FinalizeFail(nOut, f, Upto(FinalizeBufferSteps, f))
            /\ UNCHANGED <<program_, kernel_, hasKernel_, inputBufferSize_, builtSource,
                           undefinedBehaviour>>
       ELSE IF NeedsBuild(currentId_) /\ OutputReadsPastEnd > 0 /\ crash
       THEN \* undefined behaviour: the read past the end of outputVariables_ faults
            /\ undefinedBehaviour' = TRUE
            /\ FinalizeFail(nOut, "crash", Range(FinalizeBufferSteps))
            /\ UNCHANGED <<program_, kernel_, hasKernel_, inputBufferSize_, builtSource>>
       ELSE IF NeedsBuild(currentId_) /\ f \in Range(FinalizeBuildSteps)
       THEN /\ FinalizeBuild(f, garbage)
            /\ IF f = "buildProgram"
               THEN \E len \in BuildLogLengths :
                       ret' = BuildFailure("finalizeCalculation", len,
                                           Range(FinalizeBufferSteps)
                                               \cup Upto(FinalizeBuildSteps, f))
               ELSE ret' = Failed("finalizeCalculation", f,
                                  Range(FinalizeBufferSteps) \cup Upto(FinalizeBuildSteps, f))
            /\ UNCHANGED <<finalizedOk, everFinalized, undefinedBehaviour>>
       ELSE IF ~NeedsBuild(currentId_) /\ InputBufferSize # inputBufferSize_[currentId_]
       THEN /\ FinalizeFail(nOut, "InputSizeMismatch", Range(FinalizeBufferSteps))
            /\ UNCHANGED <<program_, kernel_, hasKernel_, inputBufferSize_, builtSource,
                           undefinedBehaviour>>
       ELSE LET build == NeedsBuild(currentId_)
                dev0 == Range(FinalizeBufferSteps)
                        \cup (IF build THEN Range(FinalizeBuildSteps) ELSE {})
                released == ~build /\ kernel_[currentId_] # "live"
                src == IF build THEN KernelSource(garbage) ELSE builtSource[currentId_]
                noPool == /\ ReadsPool(src) /\ nVariates_ > 0
                          /\ variatesHandles["variatesPool_"] # "live"
            IN  /\ IF build THEN FinalizeBuild("none", garbage)
                   ELSE UNCHANGED <<program_, kernel_, hasKernel_, inputBufferSize_, builtSource>>
                /\ IF UploadReadsPastEnd /\ crash
                   THEN \* undefined behaviour: the upload reads past the end of the vector
                        \* of the values
                        /\ undefinedBehaviour' = TRUE
                        /\ FinalizeFail(nOut, "crash", dev0 \cup {"writeBuffer"})
                   ELSE IF released /\ use = "crash"
                   THEN \* undefined behaviour: use of a released kernel handle
                        /\ undefinedBehaviour' = TRUE
                        /\ FinalizeFail(nOut, "crash", dev0 \cup Upto(FinalizeRunSteps, "setKernelArg"))
                   ELSE IF released /\ use = "error"
                   THEN /\ FinalizeFail(nOut, "setKernelArg",
                                        dev0 \cup Upto(FinalizeRunSteps, "setKernelArg"))
                        /\ UNCHANGED undefinedBehaviour
                   ELSE IF f \in Range(FinalizeRunSteps)
                   THEN /\ FinalizeFail(nOut, f, dev0 \cup Upto(FinalizeRunSteps, f))
                        /\ UNCHANGED undefinedBehaviour
                   ELSE IF noPool /\ use = "crash"
                   THEN \* undefined behaviour: the kernel reads through a pool handle
                        \* that holds no buffer
                        /\ undefinedBehaviour' = TRUE
                        /\ FinalizeFail(nOut, "crash", dev0 \cup Upto(FinalizeRunSteps, "enqueueKernel"))
                   ELSE IF noPool /\ use = "error" /\ OutputBufferSize > 0
                   THEN \* the fault of the kernel is reported by the wait for the reads
                        /\ FinalizeFail(nOut, "waitEvents", dev0 \cup Range(FinalizeRunSteps))
                        /\ UNCHANGED undefinedBehaviour
                   ELSE /\ ret' = [Returned("finalizeCalculation",
                                                 dev0 \cup Range(FinalizeRunSteps))
                                        EXCEPT !.args = KernelArgs, !.rn = PoolView(src),
                                               !.cmds = FinalizeCommands(
                                                            dev0 \cup Range(FinalizeRunSteps),
                                                            "none")]
                        /\ finalizedOk' = [finalizedOk EXCEPT ![currentId_] = TRUE]
                        /\ everFinalized' = everFinalized \cup {<<currentId_, version_[currentId_]>>}
                        /\ UNCHANGED undefinedBehaviour

\* ------------------------------------------------------------ ~OpenClContext
\* the handles the destructor of an initialised Context releases
ReleasedAtTeardown ==
    IF ~initialized_ THEN {} ELSE
    (IF variatesPoolSize_ > 0 THEN {<<name, 0>> : name \in VariatesHandleNames} ELSE {})
    \cup {<<"kernel_", i>> : i \in {j \in 1..Len(kernel_) : ~disposed_[j]}}
    \cup {<<"program_", i>> : i \in {j \in 1..Len(program_) : ~disposed_[j]}}

\* --------------------------------------------------------------------- Next
\* the bounds of a run: the guards under which the calls are made
InitiateBound(id, maxCalcs) == id = 0 => Len(hasKernel_) < maxCalcs

InputBound == Len(inputVarOffset_) < MaxInputs

\* a pool that holds variates is grown only by a client of the precision of its
\* program
PoolPrecisionKept(nv) ==
    IF currentId_ = 0 \/ variatesPoolSize_ = 0 THEN TRUE
    ELSE IF variatesPoolSize_ >= nv * size_[currentId_] THEN TRUE
    ELSE FpTypeStr = variatesPool.fp

VariatesBound(dim, steps) ==
    /\ nVariates_ + dim * steps <= MaxVariates
    /\ PoolPrecisionKept(nVariates_ + dim * steps)

ApplyBound(maxOps) == Len(currentSsa_) < maxOps /\ nVars_ < MaxVars

FreeBound(maxFreed) == Len(freedVariables_) < maxFreed

DeclareBound(maxOutputVars) ==
    /\ Len(outputVariables_) < MaxOutputs
    /\ currentId_ > 0 => nOutputVars_[currentId_] < maxOutputVars

SinglePrecision == {s \in OneSeed : ~s.useDoublePrecision}

Garbage == [1..(IF currentId_ > 0 THEN OutputReadsPastEnd ELSE 0) -> 0..MaxVarId]

\* the undefined outcomes are inputs only where the code reaches them
CrashInputs ==
    IF currentId_ = 0 THEN {FALSE}
    ELSE IF (NeedsBuild(currentId_) /\ OutputReadsPastEnd > 0) \/ UploadReadsPastEnd
    THEN BOOLEAN ELSE {FALSE}

UseInputs ==
    IF currentId_ = 0 THEN {"run"}
    ELSE IF \/ ~NeedsBuild(currentId_) /\ kernel_[currentId_] # "live"
            \/ nVariates_ > 0 /\ variatesHandles["variatesPool_"] # "live"
    THEN ReleasedHandleUse ELSE {"run"}

\* the device API calls of finalizeCalculation and of updateVariatesPool in the
\* state at hand, in the order of the code
FinalizeSteps ==
    IF currentId_ = 0 THEN <<>>
    ELSE FinalizeBufferSteps
         \o (IF NeedsBuild(currentId_) THEN FinalizeBuildSteps ELSE <<>>)
         \o FinalizeRunSteps

PoolSteps ==
    (IF variatesPoolSize_ = 0 THEN PoolFirstSteps ELSE <<>>)
    \o PoolGrowSteps(variatesPoolSize_ > 0)

\* the failing steps a call is made with: those of fs that the call reaches; a step
\* it does not reach cannot fail it
ReachedSteps(fs, steps) == {f \in fs : f = "none" \/ f \in Range(steps)}

\* the budget of calls of a run; a run without a budget does not count its calls
CallBound(maxCalls) ==
    IF maxCalls = 0 THEN UNCHANGED nCalls
    ELSE nCalls < maxCalls /\ nCalls' = nCalls + 1

\* the calls a client makes, its arguments drawn from the sets of in
NextOf(in) ==
    \/ \E n \in in.n, id \in in.id, version \in in.version, settings \in in.settings :
          /\ InitiateBound(id, in.maxCalcs) /\ CallBound(in.maxCalls)
          /\ InitiateCalculation(n, id, version, settings)
    \/ \E id \in in.dispose : CallBound(in.maxCalls) /\ DisposeCalculation(id)
    \/ \E isScalar \in in.isScalar :
          InputBound /\ CallBound(in.maxCalls) /\ CreateInputVariable(isScalar)
    \/ \E d \in in.dimSteps, f \in ReachedSteps(in.poolFail, PoolSteps) :
          /\ VariatesBound(d[1], d[2]) /\ CallBound(in.maxCalls)
          /\ CreateInputVariates(d[1], d[2], f)
    \/ \E op \in in.op : \E args \in [1..OpArity(op) -> in.arg] :
          ApplyBound(in.maxOps) /\ CallBound(in.maxCalls) /\ ApplyOperation(op, args)
    \/ \E id \in in.free :
          FreeBound(in.maxFreed) /\ CallBound(in.maxCalls) /\ FreeVariable(id)
    \/ \E id \in in.declare :
          /\ DeclareBound(in.maxOutputVars) /\ CallBound(in.maxCalls)
          /\ DeclareOutputVariable(id)
    \/ \E nOut \in 0..in.maxOutputVars, f \in ReachedSteps(in.finalizeFail, FinalizeSteps),
          garbage \in Garbage,
          crash \in CrashInputs, use \in UseInputs :
          CallBound(in.maxCalls) /\ FinalizeCalculation(nOut, f, garbage, crash, use)

\* Spec: the state machine of one calculation; the build of either program may fail
MachineInputs ==
    [n |-> {1}, id |-> 0..1, version |-> {0}, settings |-> SinglePrecision, maxCalcs |-> 1,
     dispose |-> {1},
     isScalar |-> {TRUE},
     dimSteps |-> {<<0, 0>>, <<1, 1>>}, poolFail |-> {"none", "buildProgram"},
     op |-> {"None", "Unknown"}, arg |-> {0}, maxOps |-> MaxOps,
     free |-> {MaxVarId}, maxFreed |-> MaxFreed,
     declare |-> {0}, maxOutputVars |-> MaxOutputVars,
     finalizeFail |-> {"none", "buildProgram"}, maxCalls |-> 0]

Next == NextOf(MachineInputs)

Spec == Init /\ [][Next]_vars

\* SpecFinalize: the same calls with every device step of finalizeCalculation failing
\* in turn; the operations are known opcodes and the pool update does not fail
FinalizeInputs ==
    [n |-> {1}, id |-> 0..1, version |-> {0}, settings |-> SinglePrecision, maxCalcs |-> 1,
     dispose |-> {1},
     isScalar |-> {TRUE},
     dimSteps |-> {<<0, 0>>, <<1, 1>>}, poolFail |-> {"none"},
     op |-> {"None"}, arg |-> {0}, maxOps |-> MaxOps,
     free |-> {MaxVarId}, maxFreed |-> MaxFreed,
     declare |-> {0}, maxOutputVars |-> MaxOutputVars,
     finalizeFail |-> FinalizeFailSteps, maxCalls |-> 0]

NextFinalize == NextOf(FinalizeInputs)

SpecFinalize == Init /\ [][NextFinalize]_vars

\* SpecCalcs: several calculations and versions in a run of at most MaxCalcsCalls
\* calls; the client creates scalar inputs, streams operations and declares outputs,
\* and uses neither variates nor freeVariable
MaxCalcsCalls == 6

CalcsInputs ==
    [n |-> 0..MaxN, id |-> 0..(MaxCalcs + 1), version |-> 0..MaxVersion,
     settings |-> SinglePrecision, maxCalcs |-> MaxCalcs,
     dispose |-> 0..(MaxCalcs + 1),
     isScalar |-> {TRUE},
     op |-> {"None"}, arg |-> {0}, maxOps |-> MaxOps,
     declare |-> {0}, maxOutputVars |-> MaxOutputVars + 1,
     finalizeFail |-> {"none", "buildProgram"}, maxCalls |-> MaxCalcsCalls]

NextCalcsOf(in) ==
    \/ \E n \in in.n, id \in in.id, version \in in.version, settings \in in.settings :
          /\ InitiateBound(id, in.maxCalcs) /\ CallBound(in.maxCalls)
          /\ InitiateCalculation(n, id, version, settings)
    \/ \E id \in in.dispose : CallBound(in.maxCalls) /\ DisposeCalculation(id)
    \/ \E isScalar \in in.isScalar :
          InputBound /\ CallBound(in.maxCalls) /\ CreateInputVariable(isScalar)
    \/ \E op \in in.op : \E args \in [1..OpArity(op) -> in.arg] :
          ApplyBound(in.maxOps) /\ CallBound(in.maxCalls) /\ ApplyOperation(op, args)
    \/ \E id \in in.declare :
          /\ DeclareBound(in.maxOutputVars) /\ CallBound(in.maxCalls)
          /\ DeclareOutputVariable(id)
    \/ \E nOut \in 0..in.maxOutputVars, f \in ReachedSteps(in.finalizeFail, FinalizeSteps),
          garbage \in Garbage,
          crash \in CrashInputs, use \in UseInputs :
          CallBound(in.maxCalls) /\ FinalizeCalculation(nOut, f, garbage, crash, use)

NextCalcs == NextCalcsOf(CalcsInputs)

SpecCalcs == Init /\ [][NextCalcs]_vars

\* SpecVersions: one calculation re-initiated under two versions, every call made,
\* in a run of at most MaxVersionsCalls calls, no device failure
MaxVersionsCalls == 9

VersionsInputs ==
    [n |-> {1}, id |-> 0..1, version |-> 0..MaxVersion, settings |-> SinglePrecision,
     maxCalcs |-> 1,
     dispose |-> {1},
     isScalar |-> {TRUE},
     dimSteps |-> {<<1, 1>>}, poolFail |-> {"none"},
     op |-> {"None"}, arg |-> {0}, maxOps |-> MaxOps,
     free |-> {MaxVarId}, maxFreed |-> MaxFreed,
     declare |-> {0}, maxOutputVars |-> MaxOutputVars,
     finalizeFail |-> {"none"}, maxCalls |-> MaxVersionsCalls]

NextVersions == NextOf(VersionsInputs)

SpecVersions == Init /\ [][NextVersions]_vars

\* SpecPrecision: one calculation in single or double precision, on a device with
\* or without double precision, no device failure
PrecisionInputs ==
    [n |-> {1}, id |-> 0..1, version |-> {0}, settings |-> OneSeed, maxCalcs |-> 1,
     dispose |-> {1},
     isScalar |-> {TRUE},
     dimSteps |-> {<<1, 1>>}, poolFail |-> {"none"},
     op |-> {"None"}, arg |-> {0}, maxOps |-> MaxOps,
     free |-> {MaxVarId}, maxFreed |-> MaxFreed,
     declare |-> {0}, maxOutputVars |-> MaxOutputVars,
     finalizeFail |-> {"none"}, maxCalls |-> 0]

InitPrecision == InitOf(BOOLEAN)

NextPrecision == NextOf(PrecisionInputs)

SpecPrecision == InitPrecision /\ [][NextPrecision]_vars

\* SpecShared: several calculations of one version that share the Context, with and
\* without variates, in a run of at most MaxCalls calls, no device failure
SharedInputs ==
    [n |-> {1}, id |-> 0..MaxCalcs, version |-> {0}, settings |-> SinglePrecision,
     maxCalcs |-> MaxCalcs,
     dispose |-> {1},
     isScalar |-> {TRUE},
     dimSteps |-> {<<1, 1>>}, poolFail |-> {"none"},
     op |-> {"None"}, arg |-> {0}, maxOps |-> MaxOps,
     free |-> {MaxVarId}, maxFreed |-> MaxFreed,
     declare |-> {0}, maxOutputVars |-> MaxOutputVars,
     finalizeFail |-> {"none"}, maxCalls |-> MaxCalls]

NextShared == NextOf(SharedInputs)

SpecShared == Init /\ [][NextShared]_vars

\* SpecIds: one calculation whose client streams several operations and frees
\* result ids, the same id more than once, no device failure
IdsInputs ==
    [n |-> {1}, id |-> 0..1, version |-> {0}, settings |-> SinglePrecision, maxCalcs |-> 1,
     dispose |-> {1},
     isScalar |-> {TRUE},
     dimSteps |-> {<<1, 1>>}, poolFail |-> {"none"},
     op |-> {"None"}, arg |-> {0}, maxOps |-> MaxOps + 2,
     free |-> {0}, maxFreed |-> MaxFreed + 1,
     declare |-> {0}, maxOutputVars |-> MaxOutputVars,
     finalizeFail |-> {"none"}, maxCalls |-> 0]

NextIds == NextOf(IdsInputs)

SpecIds == Init /\ [][NextIds]_vars

\* SpecInit: a Context from its construction on: init() on a device that may fail
\* the creation of the context or of the queue, and the calls of a client on several
\* calculations, in a run of at most MaxCalls calls
InitInputs ==
    [errOk |-> BOOLEAN, failures |-> {0, 1, InitAttempts}, queueFail |-> BOOLEAN,
     use |-> IndeterminateHandleUse,
     n |-> {1}, id |-> 0..MaxCalcs, version |-> {0}, settings |-> SinglePrecision,
     maxCalcs |-> MaxCalcs,
     dispose |-> {1},
     isScalar |-> {TRUE},
     dimSteps |-> {<<1, 1>>}, poolFail |-> {"none", "buildProgram"},
     op |-> {"None"}, arg |-> {0}, maxOps |-> MaxOps,
     free |-> {MaxVarId}, maxFreed |-> MaxFreed,
     declare |-> {0}, maxOutputVars |-> MaxOutputVars,
     finalizeFail |-> {"none", "buildProgram"}, maxCalls |-> MaxCalls]

\* the device API calls that take the context and those that take the queue
ContextSteps ==
    {"createInputBuffer", "createOutputBuffer", "createProgram", "createStateBuffer",
     "createPoolBuffer"}

QueueSteps ==
    {"writeBuffer", "enqueueKernel", "readBuffer", "enqueueSeedInit", "copyBuffer",
     "enqueueTwist", "enqueueGenerate"}

\* the first of steps that is given a handle init() did not create: that call
\* fails whatever the device
RECURSIVE FirstRefused(_)
FirstRefused(steps) ==
    IF steps = <<>> THEN "none"
    ELSE IF \/ Head(steps) \in ContextSteps /\ context_ # "live"
            \/ Head(steps) \in QueueSteps /\ queue_ # "live"
    THEN Head(steps)
    ELSE FirstRefused(Tail(steps))

\* the failing step of a call: drawn from fs unless a step of the call is refused
FailInputs(fs, steps) ==
    IF FirstRefused(steps) = "none" THEN fs ELSE {FirstRefused(steps)}

\* a call that reaches the device is made only with a context_ that init() has
\* assigned
ContextAssigned == context_ # "uninit"

NextInitOf(in) ==
    \/ \E errOk \in in.errOk, failures \in in.failures, queueFail \in in.queueFail,
          use \in in.use :
          CallBound(in.maxCalls) /\ InitContext(errOk, failures, queueFail, use)
    \/ \E n \in in.n, id \in in.id, version \in in.version, settings \in in.settings :
          /\ InitiateBound(id, in.maxCalcs) /\ CallBound(in.maxCalls)
          /\ InitiateCalculation(n, id, version, settings)
    \/ \E id \in in.dispose : CallBound(in.maxCalls) /\ DisposeCalculation(id)
    \/ \E isScalar \in in.isScalar :
          InputBound /\ CallBound(in.maxCalls) /\ CreateInputVariable(isScalar)
    \/ \E d \in in.dimSteps, f \in FailInputs(in.poolFail, PoolSteps) :
          /\ ContextAssigned
          /\ VariatesBound(d[1], d[2]) /\ CallBound(in.maxCalls)
          /\ CreateInputVariates(d[1], d[2], f)
    \/ \E op \in in.op : \E args \in [1..OpArity(op) -> in.arg] :
          ApplyBound(in.maxOps) /\ CallBound(in.maxCalls) /\ ApplyOperation(op, args)
    \/ \E id \in in.free :
          FreeBound(in.maxFreed) /\ CallBound(in.maxCalls) /\ FreeVariable(id)
    \/ \E id \in in.declare :
          /\ DeclareBound(in.maxOutputVars) /\ CallBound(in.maxCalls)
          /\ DeclareOutputVariable(id)
    \/ \E nOut \in 0..in.maxOutputVars, f \in FailInputs(in.finalizeFail, FinalizeSteps),
          garbage \in Garbage, crash \in CrashInputs, use \in UseInputs :
          /\ ContextAssigned
          /\ CallBound(in.maxCalls) /\ FinalizeCalculation(nOut, f, garbage, crash, use)

NextInit == NextInitOf(InitInputs)

SpecInit == InitConstructed /\ [][NextInit]_vars

\* SpecPool: clients with two seeds on calculations of two sizes, of which the larger
\* one does not fit into the pool of the smaller one, on a device that may fail while
\* the pool grows
MaxPoolCalcs == 3

MaxPoolCalls == 7

PoolInputs ==
    [n |-> {1, mt_N + 1}, id |-> {0}, version |-> {0},
     settings |-> {s \in Settings : ~s.useDoublePrecision}, maxCalcs |-> MaxPoolCalcs,
     dispose |-> {1},
     isScalar |-> {TRUE},
     dimSteps |-> {<<1, 1>>}, poolFail |-> {"none", "createPoolBuffer", "enqueueGenerate"},
     op |-> {"None"}, arg |-> {0}, maxOps |-> MaxOps,
     free |-> {MaxVarId}, maxFreed |-> MaxFreed,
     declare |-> {0}, maxOutputVars |-> MaxOutputVars,
     finalizeFail |-> {"none"}, maxCalls |-> MaxPoolCalls]

NextPool == NextOf(PoolInputs)

SpecPool == Init /\ [][NextPool]_vars

\* SpecPoolRun: evaluations of variates alone (initiate, variates, output, finalize)
\* on calculations of two sizes, the creation of the pool buffer failing at will, in a
\* run of at most MaxPoolRunCalls calls
MaxPoolRunCalls == 8

PoolRunInputs ==
    [n |-> {1, mt_N + 1}, id |-> {0}, version |-> {0}, settings |-> SinglePrecision,
     maxCalcs |-> MaxPoolCalcs,
     dimSteps |-> {<<1, 1>>}, poolFail |-> {"none", "createPoolBuffer"},
     declare |-> {0}, maxOutputVars |-> MaxOutputVars,
     finalizeFail |-> {"none"}, maxCalls |-> MaxPoolRunCalls]

NextPoolRunOf(in) ==
    \/ \E n \in in.n, id \in in.id, version \in in.version, settings \in in.settings :
          /\ InitiateBound(id, in.maxCalcs) /\ CallBound(in.maxCalls)
          /\ InitiateCalculation(n, id, version, settings)
    \/ \E d \in in.dimSteps, f \in ReachedSteps(in.poolFail, PoolSteps) :
          /\ VariatesBound(d[1], d[2]) /\ CallBound(in.maxCalls)
          /\ CreateInputVariates(d[1], d[2], f)
    \/ \E id \in in.declare :
          /\ DeclareBound(in.maxOutputVars) /\ CallBound(in.maxCalls)
          /\ DeclareOutputVariable(id)
    \/ \E nOut \in 0..in.maxOutputVars, f \in ReachedSteps(in.finalizeFail, FinalizeSteps),
          garbage \in Garbage,
          crash \in CrashInputs, use \in UseInputs :
          CallBound(in.maxCalls) /\ FinalizeCalculation(nOut, f, garbage, crash, use)

NextPoolRun == NextPoolRunOf(PoolRunInputs)

SpecPoolRun == Init /\ [][NextPoolRun]_vars

\* SpecLayout: one calculation of batch size LayoutN with up to MaxLayoutInputs scalar
\* and vector inputs and up to MaxLayoutVariates variates, evaluated again after a
\* failed build, in a run of at most MaxLayoutCalls calls
LayoutN == 2

MaxLayoutInputs == 3

MaxLayoutVariates == 2

MaxLayoutVars == 4

MaxLayoutCalls == 7

LayoutInputs ==
    [n |-> {LayoutN}, id |-> 0..1, version |-> {0}, settings |-> OneSeed,
     maxCalcs |-> 1,
     dispose |-> {1},
     isScalar |-> BOOLEAN, maxInputs |-> MaxLayoutInputs,
     dimSteps |-> {<<1, 1>>, <<2, 1>>}, maxVariates |-> MaxLayoutVariates,
     poolFail |-> {"none"},
     op |-> {"None"}, arg |-> {0}, maxOps |-> MaxOps, maxVars |-> MaxLayoutVars,
     free |-> {MaxLayoutVars - 1}, maxFreed |-> MaxFreed,
     declare |-> 0..(MaxLayoutVars - 1), maxOutputVars |-> MaxOutputVars,
     finalizeFail |-> {"none", "buildProgram"}, maxCalls |-> MaxLayoutCalls]

NextLayoutOf(in) ==
    \/ \E n \in in.n, id \in in.id, version \in in.version, settings \in in.settings :
          /\ InitiateBound(id, in.maxCalcs) /\ CallBound(in.maxCalls)
          /\ InitiateCalculation(n, id, version, settings)
    \/ \E id \in in.dispose : CallBound(in.maxCalls) /\ DisposeCalculation(id)
    \/ \E isScalar \in in.isScalar :
          /\ Len(inputVarOffset_) < in.maxInputs /\ CallBound(in.maxCalls)
          /\ CreateInputVariable(isScalar)
    \/ \E d \in in.dimSteps, f \in ReachedSteps(in.poolFail, PoolSteps) :
          /\ nVariates_ + d[1] * d[2] <= in.maxVariates
          /\ PoolPrecisionKept(nVariates_ + d[1] * d[2]) /\ CallBound(in.maxCalls)
          /\ CreateInputVariates(d[1], d[2], f)
    \/ \E op \in in.op : \E args \in [1..OpArity(op) -> in.arg] :
          /\ Len(currentSsa_) < in.maxOps /\ nVars_ < in.maxVars /\ CallBound(in.maxCalls)
          /\ ApplyOperation(op, args)
    \/ \E id \in in.free :
          FreeBound(in.maxFreed) /\ CallBound(in.maxCalls) /\ FreeVariable(id)
    \/ \E id \in in.declare :
          /\ DeclareBound(in.maxOutputVars) /\ CallBound(in.maxCalls)
          /\ DeclareOutputVariable(id)
    \/ \E nOut \in 0..in.maxOutputVars, f \in ReachedSteps(in.finalizeFail, FinalizeSteps),
          garbage \in Garbage,
          crash \in CrashInputs, use \in UseInputs :
          CallBound(in.maxCalls) /\ FinalizeCalculation(nOut, f, garbage, crash, use)

NextLayout == NextLayoutOf(LayoutInputs)

SpecLayout == Init /\ [][NextLayout]_vars

\* SpecEvents: one calculation of batch size 1 or 2 with up to MaxEventInputs inputs,
\* MaxEventOps operations and MaxEventOutputs outputs, finalized with every failing
\* step of the run and evaluated again, in a run of at most MaxEventCalls calls
MaxEventInputs == 1

MaxEventOps == 1

MaxEventOutputs == 2

MaxEventCalls == 7

EventInputs ==
    [n |-> {1, 2}, id |-> 0..1, version |-> {0}, settings |-> SinglePrecision,
     maxCalcs |-> 1,
     isScalar |-> BOOLEAN, maxInputs |-> MaxEventInputs,
     op |-> {"None"}, arg |-> {0}, maxOps |-> MaxEventOps,
     declare |-> {0, 1}, maxOutputs |-> MaxEventOutputs,
     finalizeFail |-> {"none", "writeBuffer", "setKernelArg", "enqueueKernel", "readBuffer",
                       "waitEvents"},
     maxCalls |-> MaxEventCalls]

NextEventsOf(in) ==
    \/ \E n \in in.n, id \in in.id, version \in in.version, settings \in in.settings :
          /\ InitiateBound(id, in.maxCalcs) /\ CallBound(in.maxCalls)
          /\ InitiateCalculation(n, id, version, settings)
    \/ \E isScalar \in in.isScalar :
          /\ Len(inputVarOffset_) < in.maxInputs /\ CallBound(in.maxCalls)
          /\ CreateInputVariable(isScalar)
    \/ \E op \in in.op : \E args \in [1..OpArity(op) -> in.arg] :
          /\ Len(currentSsa_) < in.maxOps /\ CallBound(in.maxCalls)
          /\ ApplyOperation(op, args)
    \/ \E id \in in.declare :
          /\ Len(outputVariables_) < in.maxOutputs
          /\ currentId_ > 0 => nOutputVars_[currentId_] < in.maxOutputs
          /\ CallBound(in.maxCalls)
          /\ DeclareOutputVariable(id)
    \/ \E nOut \in 0..in.maxOutputs, f \in ReachedSteps(in.finalizeFail, FinalizeSteps),
          garbage \in Garbage,
          crash \in CrashInputs, use \in UseInputs :
          CallBound(in.maxCalls) /\ FinalizeCalculation(nOut, f, garbage, crash, use)

NextEvents == NextEventsOf(EventInputs)

SpecEvents == Init /\ [][NextEvents]_vars

\* SpecFree: one evaluation of one calculation that streams up to MaxFreeOps
\* operations, one of an opcode outside RandomVariableOpCode, and frees the ids
\* 0..MaxFreeId, those that applyOperation never returned included
MaxFreeOps == 3

MaxFreeId == 2

MaxFreeFreed == 2

FreeInputs ==
    [n |-> {1}, id |-> {0}, version |-> {0}, settings |-> SinglePrecision, maxCalcs |-> 1,
     dispose |-> {1},
     isScalar |-> {TRUE},
     dimSteps |-> {<<1, 1>>}, poolFail |-> {"none"},
     op |-> {"None", "Unknown"}, arg |-> {0}, maxOps |-> MaxFreeOps,
     free |-> 0..MaxFreeId, maxFreed |-> MaxFreeFreed,
     declare |-> {0}, maxOutputVars |-> MaxOutputVars,
     finalizeFail |-> {"none"}, maxCalls |-> 0]

NextFree == NextOf(FreeInputs)

SpecFree == Init /\ [][NextFree]_vars

\* ------------------------------------------------------------------ claims
\* the transition table of the interface: the states a call is listed for and
\* the state it leads to
TableSources(op) ==
    CASE op = "createInputVariable" -> {"createInput"}
      [] op = "createInputVariates" -> {"createInput", "createVariates"}
      [] op = "applyOperation" -> {"createInput", "createVariates", "calc"}
      [] op = "freeVariable" -> {"calc"}
      [] op = "declareOutputVariable" -> {"createInput", "createVariates", "calc"}

TableTarget(op, st) ==
    CASE op = "createInputVariable" -> "createInput"
      [] op = "createInputVariates" -> "createVariates"
      [] op = "applyOperation" -> "calc"
      [] op = "freeVariable" -> "calc"
      [] op = "declareOutputVariable" -> st

TableOps == {"createInputVariable", "createInputVariates", "applyOperation", "freeVariable",
             "declareOutputVariable"}

\* the failures a call out of sequence is rejected with: the state check and
\* the check that a calculation is current
BadState == {"BadState", "IdNotSet"}

CachedKernel == currentId_ > 0 /\ hasKernel_[currentId_]

\* C1: on a calculation without a cached kernel, a call of createInputVariable,
\* createInputVariates, applyOperation, freeVariable or declareOutputVariable that
\* returns normally was made in a state the table lists for it and leaves the
\* tabulated target state; made in any other state the call fails on the state
\* check and leaves the state unchanged (so freeVariable and applyOperation fail
\* in idle, the state after finalizeCalculation)
C1_TransitionTable ==
    [][(ret'.op \in TableOps /\ ~CachedKernel)
       => /\ ret'.ok => /\ currentState_ \in TableSources(ret'.op)
                        /\ currentState_' = TableTarget(ret'.op, currentState_)
          /\ currentState_ \notin TableSources(ret'.op)
                => /\ ~ret'.ok
                   /\ ret'.err = "BadState"
                   /\ currentState_' = currentState_]_vars

\* freeVariable was rejected in idle after an evaluation was finalized
C1_Witness ==
    /\ ret.op = "freeVariable" /\ ret.err = "BadState"
    /\ currentState_ = "idle" /\ currentId_ > 0 /\ ~hasKernel_[currentId_]

\* C2: initiateCalculation called while a calculation is in progress (state
\* createInput, createVariates or calc) fails with BadState and leaves the current
\* id, the state, the input descriptors, the variate counter, the ssa text and the
\* output list unchanged
C2_InitiateOnlyInIdle ==
    [][(ret'.op = "initiateCalculation" /\ currentState_ # "idle")
       => /\ ~ret'.ok
          /\ ret'.err \in BadState
          /\ UNCHANGED <<currentId_, currentState_, inputVars, nVariates_, currentSsa_,
                         outputVariables_>>]_vars

\* C3: finalizeCalculation called in state idle fails with BadState and makes no
\* device call (no buffer creation, build, launch or read-back)
C3_FinalizeOnlyWhenActive ==
    [][(ret'.op = "finalizeCalculation" /\ currentState_ = "idle")
       => /\ ~ret'.ok
          /\ ret'.err \in BadState
          /\ ret'.dev = {}]_vars

\* C4: whenever the last call made was finalizeCalculation, returned or failed at
\* whatever step, the state is idle
C4_IdleAfterFinalize ==
    ret.op = "finalizeCalculation" => currentState_ = "idle"

\* finalizeCalculation failed at the last device step of an evaluation
C4_Witness ==
    /\ ret.op = "finalizeCalculation" /\ ~ret.ok /\ ret.err = "waitEvents"
    /\ currentState_ = "idle"

\* the arguments of initiateCalculation the claims range over
InitiateN == 0..MaxN

InitiateVersion == 0..MaxVersion

\* C5: initiateCalculation(n, 0, ...) with n >= 1 appends exactly one record,
\* keeps the others, and returns fresh = true with an id equal to the number of
\* records after the call, at least 1, greater than every id returned before and
\* never returned before (also when records were disposed); with n = 0 it fails and
\* the records are unchanged
C5_NewIds ==
    [][ret'.op = "initiateCalculation"
       => \A n \in InitiateN, version \in InitiateVersion, settings \in SinglePrecision :
          InitiateCalculation(n, 0, version, settings)
          => IF n >= 1
             THEN /\ ret'.ok /\ ret'.fresh
                  /\ Len(size_') = Len(size_) + 1
                  /\ SubSeq(size_', 1, Len(size_)) = size_
                  /\ SubSeq(disposed_', 1, Len(disposed_)) = disposed_
                  /\ ret'.id = Len(size_')
                  /\ ret'.id >= 1
                  /\ ret'.id \notin issuedIds
                  /\ \A i \in issuedIds : i < ret'.id
             ELSE ~ret'.ok /\ UNCHANGED records]_vars

\* a second id was handed out after the first record was disposed
C5_Witness ==
    /\ ret.op = "initiateCalculation" /\ ret.ok /\ ret.fresh /\ ret.id = 2
    /\ issuedIds = {1, 2} /\ Len(size_) = 2 /\ disposed_[1]

\* C6: initiateCalculation(n, id > 0, ...) fails on the check of the id when id
\* exceeds the number of records, when the record's n differs from n, or when the
\* record is disposed, and then leaves the records, the current id and the state
\* unchanged (with n = 0 it fails on the check of n before)
C6_BadIdLeavesState ==
    [][ret'.op = "initiateCalculation"
       => \A n \in InitiateN, id \in 1..(MaxCalcs + 1), version \in InitiateVersion,
          settings \in SinglePrecision :
          (/\ (id > Len(size_) \/ size_[id] # n \/ disposed_[id])
           /\ InitiateCalculation(n, id, version, settings))
          => /\ ~ret'.ok
             /\ n >= 1 => ret'.err \in BadId
             /\ UNCHANGED <<records, currentId_, currentState_>>]_vars

\* a disposed id was refused while another evaluation was in progress
C6_Witness ==
    /\ ret.op = "initiateCalculation" /\ ret.err = "Disposed"
    /\ currentState_ # "idle" /\ currentId_ > 0 /\ ~disposed_[currentId_]

\* C7: a successful initiateCalculation on an existing id with a version other
\* than the stored one leaves the record without kernel, stores the version and
\* returns fresh = true; with the stored version it returns fresh = false and leaves
\* the record's kernel and version as they were.  A successful finalizeCalculation
\* on a record without kernel builds one, and no line of its body was streamed
\* before the last change of version of that record
C7_VersionChange ==
    [][/\ (ret'.op = "initiateCalculation" /\ ret'.ok)
          => \A n \in 1..MaxN, id \in 1..MaxCalcs, version \in InitiateVersion,
             settings \in SinglePrecision :
             InitiateCalculation(n, id, version, settings)
             => IF version # version_[id]
                THEN ~hasKernel_'[id] /\ version_'[id] = version /\ ret'.fresh
                ELSE /\ ~ret'.fresh
                     /\ hasKernel_'[id] = hasKernel_[id]
                     /\ kernel_'[id] = kernel_[id]
                     /\ version_'[id] = version_[id]
       /\ (ret'.op = "finalizeCalculation" /\ ret'.ok /\ ~hasKernel_[currentId_])
             => /\ "buildProgram" \in ret'.dev
                /\ hasKernel_'[currentId_]
                /\ \A k \in 1..Len(builtSource'[currentId_].ssa) :
                      currentId_ \notin builtSource'[currentId_].ssa[k].pre]_vars

\* a kernel with a body was built for a record that had run under another version
C7_Witness ==
    /\ ret.op = "finalizeCalculation" /\ ret.ok /\ "buildProgram" \in ret.dev
    /\ builtSource[currentId_].ssa # <<>>
    /\ \E v \in InitiateVersion : v # version_[currentId_] /\ <<currentId_, v>> \in everFinalized

\* C8 as stated: once finalizeCalculation has succeeded for (id, version), a later
\* finalizeCalculation of an evaluation of the same (id, version) makes no program
\* build, whatever happened in between (stated for the runs in which every
\* initiateCalculation was made in idle and every finalizeCalculation after one)
C8_SameVersionNeverRebuilds ==
    [][(/\ ret'.op = "finalizeCalculation"
        /\ inSequence'
        /\ currentId_ > 0
        /\ <<currentId_, version_[currentId_]>> \in everFinalized)
       => "createProgram" \notin ret'.dev /\ "buildProgram" \notin ret'.dev]_vars

\* C8 amended: once finalizeCalculation has succeeded for (id, version), a later
\* finalizeCalculation of an evaluation of the same (id, version) makes no program
\* build provided the id was not initiated with another version in between
C8_ReuseUntilVersionChange ==
    [][(/\ ret'.op = "finalizeCalculation"
        /\ currentId_ > 0
        /\ finalizedOk[currentId_])
       => "createProgram" \notin ret'.dev /\ "buildProgram" \notin ret'.dev]_vars

\* a cached kernel was run again after another calculation was built and disposed
C8_Witness ==
    /\ ret.op = "finalizeCalculation" /\ ret.ok /\ "buildProgram" \notin ret.dev
    /\ finalizedOk[currentId_]
    /\ \E j \in 1..Len(size_) : j # currentId_ /\ hasKernel_[j] /\ disposed_[j]

\* C9: an evaluation of a calculation that ran before and whose version was bumped
\* since, in which one output was declared and the output list has one entry, is
\* finalized with one output vector: the call returns normally, rebuilds the kernel
\* and the record's output count is 1
C9_OutputCountAfterBump ==
    [][(/\ currentState_ # "idle"
        /\ currentId_ > 0
        /\ NeedsBuild(currentId_)
        /\ nDeclared = 1
        /\ Len(outputVariables_) = 1
        /\ \E v \in InitiateVersion : <<currentId_, v>> \in everFinalized
        /\ \E garbage \in Garbage, crash \in CrashInputs, use \in UseInputs :
              FinalizeCalculation(1, "none", garbage, crash, use))
       => /\ ret'.ok
          /\ "buildProgram" \in ret'.dev
          /\ nOutputVars_[currentId_] = 1]_vars

\* C10 as stated: every successful initiateCalculation leaves the input
\* descriptors, the free list and the output list empty and the variate counter 0,
\* and empties the ssa text exactly when it returns fresh = true (stated for the
\* runs in which every initiateCalculation was made in idle and every
\* finalizeCalculation after one)
C10_ScratchAlwaysReset ==
    [][(ret'.op = "initiateCalculation" /\ ret'.ok /\ inSequence')
       => /\ inputVarOffset_' = <<>> /\ inputVarIsScalar_' = <<>>
          /\ inputVarValues32_' = 0 /\ inputVarValues64_' = 0
          /\ freedVariables_' = <<>>
          /\ outputVariables_' = <<>>
          /\ nVariates_' = 0
          /\ IF ret'.fresh THEN currentSsa_' = <<>> ELSE currentSsa_' = currentSsa_]_vars

\* C10 amended: every successful initiateCalculation leaves the input descriptors
\* empty; the free list, the output list, the variate counter and the ssa text are
\* emptied when it returns fresh = true and left as they were when it returns
\* fresh = false
C10_ScratchResetWhenFresh ==
    [][(ret'.op = "initiateCalculation" /\ ret'.ok)
       => /\ inputVarOffset_' = <<>> /\ inputVarIsScalar_' = <<>>
          /\ inputVarValues32_' = 0 /\ inputVarValues64_' = 0
          /\ IF ret'.fresh
             THEN /\ freedVariables_' = <<>>
                  /\ outputVariables_' = <<>>
                  /\ nVariates_' = 0
                  /\ currentSsa_' = <<>>
             ELSE UNCHANGED <<freedVariables_, outputVariables_, nVariates_, currentSsa_>>]_vars

\* an initiateCalculation with fresh = false kept the free list, the output list
\* and the variate counter of the evaluation before
C10_Witness ==
    /\ ret.op = "initiateCalculation" /\ ret.ok /\ ~ret.fresh
    /\ freedVariables_ # <<>> /\ outputVariables_ # <<>> /\ nVariates_ > 0
    /\ inputVarOffset_ = <<>>

\* the calls that are forbidden once a kernel exists
KernelForbidden == {"createInputVariates", "applyOperation", "freeVariable",
                    "declareOutputVariable"}

\* C13: with a kernel cached for the current calculation, createInputVariates,
\* applyOperation, freeVariable and declareOutputVariable fail and leave the state,
\* nVars, nVariates, the free list, the output list, the record's output count and
\* the ssa text as they were
C13_CachedKernelCallsLeaveContext ==
    [][(ret'.op \in KernelForbidden /\ CachedKernel)
       => /\ ~ret'.ok
          /\ UNCHANGED <<currentState_, nVars_, nVariates_, freedVariables_,
                         outputVariables_, nOutputVars_, currentSsa_>>]_vars

\* C14: createInputVariates(0, 0) in state createInput or createVariates on a
\* calculation without cached kernel returns an empty id set, leaves nVars and
\* nVariates unchanged and makes no device call for the variate pool
C14_NoVariatesNoPool ==
    [][\A f \in PoolFailSteps :
          (/\ CreateVariatesStateOk(currentState_)
           /\ ~CachedKernel
           /\ CreateInputVariates(0, 0, f))
          => /\ ret'.ok
             /\ ret'.ids = <<>>
             /\ ret'.dev = {}
             /\ UNCHANGED <<nVars_, nVariates_, variatesPoolSize_>>]_vars

\* C19: while the calculation in progress is disposed, applyOperation,
\* declareOutputVariable and finalizeCalculation do not return normally, and no
\* kernel is built or cached for the disposed record
C19_DisposedInProgress ==
    [][(/\ currentId_ > 0
        /\ disposed_[currentId_]
        /\ ret'.op \in {"applyOperation", "declareOutputVariable", "finalizeCalculation"})
       => /\ ~ret'.ok
          /\ "createProgram" \notin ret'.dev
          /\ hasKernel_' = hasKernel_]_vars

\* C20: disposeCalculation(id) with id = 0 or id greater than the number of records
\* fails on the check of the id, reads no record outside the vectors and changes no
\* record
C20_DisposeUnknownId ==
    [][\A id \in 0..(MaxCalcs + 1) :
          (~DisposeIdKnown(id) /\ DisposeCalculation(id))
          => /\ ~ret'.ok
             /\ ret'.err \in BadId
             /\ ~undefinedBehaviour'
             /\ UNCHANGED records]_vars

\* the fields of record i are the same before and after the step
RecordUnchanged(i) ==
    /\ size_'[i] = size_[i]
    /\ disposed_'[i] = disposed_[i]
    /\ hasKernel_'[i] = hasKernel_[i]
    /\ version_'[i] = version_[i]
    /\ program_'[i] = program_[i]
    /\ kernel_'[i] = kernel_[i]
    /\ inputBufferSize_'[i] = inputBufferSize_[i]
    /\ nOutputVars_'[i] = nOutputVars_[i]

\* C18: disposeCalculation(id) on a live record marks it disposed and changes no
\* other record; a disposed record never becomes live again, and on a disposed
\* record disposeCalculation(id) and initiateCalculation(n, id, ...) fail with BadId
C18_DisposedForever ==
    [][/\ Len(disposed_') >= Len(disposed_)
       /\ \A i \in 1..Len(disposed_) : disposed_[i] => disposed_'[i]
       /\ ret'.op = "disposeCalculation"
          => \A id \in 1..MaxCalcs :
             (DisposeIdKnown(id) /\ DisposeCalculation(id))
             => IF disposed_[id]
                THEN ~ret'.ok /\ ret'.err \in BadId /\ UNCHANGED records
                ELSE /\ ret'.ok
                     /\ disposed_'[id]
                     /\ Len(disposed_') = Len(disposed_)
                     /\ \A i \in 1..Len(disposed_) : i # id => RecordUnchanged(i)
       /\ ret'.op = "initiateCalculation"
          => \A n \in 1..MaxN, id \in 1..MaxCalcs, version \in InitiateVersion,
             settings \in SinglePrecision :
             (/\ DisposeIdKnown(id)
              /\ disposed_[id]
              /\ InitiateCalculation(n, id, version, settings))
             => ~ret'.ok /\ ret'.err \in BadId /\ UNCHANGED records]_vars

\* a second record exists, the first one is disposed and an initiateCalculation has
\* just been refused
C18_Witness ==
    /\ Len(disposed_) = 2
    /\ disposed_[1]
    /\ ~disposed_[2]
    /\ ret.op = "initiateCalculation"
    /\ ~ret.ok
    /\ ret.err = "Disposed"

\* the entry checks of finalizeCalculation that the caller can fail
EntryRefusals == {"OutputArity", "CapabilityMismatch"}

\* C15: finalizeCalculation fails with OutputArity when the number of output vectors
\* differs from the record's output count, and with CapabilityMismatch when double
\* precision is configured on a device without it; the refused call makes no device
\* call, leaves the records and the built kernel as they were and ends in idle
C15_EntryChecks ==
    [][\A nOut \in 0..MaxOutputVars :
          (/\ currentId_ > 0
           /\ \E garbage \in Garbage, crash \in CrashInputs, use \in UseInputs :
                 FinalizeCalculation(nOut, "none", garbage, crash, use))
          => /\ (nOut # nOutputVars_[currentId_]) => ret'.err = "OutputArity"
             /\ (/\ nOut = nOutputVars_[currentId_]
                 /\ settings_.useDoublePrecision
                 /\ ~supportsDoublePrecision_) => ret'.err = "CapabilityMismatch"
             /\ ret'.err \in EntryRefusals
                => /\ ~ret'.ok
                   /\ ret'.dev = {}
                   /\ UNCHANGED <<records, builtSource, variatesPoolSize_>>
                   /\ currentState_' = "idle"]_vars

\* a calculation in double precision with its outputs declared has just been
\* refused by a device without double precision
C15_Witness ==
    /\ ret.op = "finalizeCalculation"
    /\ ret.err = "CapabilityMismatch"
    /\ ~supportsDoublePrecision_
    /\ Len(outputVariables_) = 1
    /\ currentState_ = "idle"

\* C11: whenever finalizeCalculation launches a kernel, built in the call or
\* cached, the buffers bound as its arguments are, in order, the parameters of the
\* signature the kernel was built with
C11_ArgsMatchSignature ==
    [][(/\ ret'.op = "finalizeCalculation"
        /\ "enqueueKernel" \in ret'.dev
        /\ inSequence')
       => KernelArgs = builtSource'[currentId_].args]_vars

\* the calls that return variable ids, and the ids a call has returned
IdSources == {"createInputVariable", "createInputVariates", "applyOperation"}

ReturnedIds(r) ==
    IF r.op = "createInputVariates"
    THEN UNION {Range(r.ids[i]) : i \in DOMAIN r.ids}
    ELSE {r.id}

\* C12: within one evaluation the ids returned by createInputVariable,
\* createInputVariates and applyOperation are never ids that are still live, and they
\* are numbered 0, 1, 2, ... without gap as long as freeVariable has not been called
C12_IdsDistinct ==
    [][(ret'.op \in IdSources /\ ret'.ok /\ inSequence')
       => /\ ReturnedIds(ret') \cap liveIds = {}
          /\ ~freeCalled
             => ReturnedIds(ret') = {Cardinality(liveIds) + k :
                                       k \in 0..(Cardinality(ReturnedIds(ret')) - 1)}]_vars

\* the build of the kernel of the call failed in the compiler
CompileFailed(r) ==
    /\ r.op = "finalizeCalculation"
    /\ "buildProgram" \in r.dev
    /\ "createKernel" \notin r.dev

\* C16: when the compile of the kernel fails in finalizeCalculation, whatever the
\* length of the build log, the call fails with the build error, its message
\* carries a part of the log no longer than MAX_BUILD_LOG_LOGFILE characters, and
\* the record has no kernel afterwards
C16_BuildFailed ==
    [][CompileFailed(ret')
       => /\ ~ret'.ok
          /\ ret'.err = "buildProgram"
          /\ ret'.log.from >= 1
          /\ ret'.log.to <= ret'.log.len
          /\ ret'.log.to - ret'.log.from < MAX_BUILD_LOG_LOGFILE
          /\ ~hasKernel_'[currentId_]]_vars

\* the handles that are live, by member and, for a record's handle, calculation id
LiveHandles ==
    {<<name, 0>> : name \in {h \in VariatesHandleNames : variatesHandles[h] = "live"}}
    \cup {<<"kernel_", i>> : i \in {j \in 1..Len(kernel_) : kernel_[j] = "live"}}
    \cup {<<"program_", i>> : i \in {j \in 1..Len(program_) : program_[j] = "live"}}

\* the live handles whose member the call with outcome r assigned a new handle
\* without releasing the old one
Overwritten(r) ==
    IF r.op = "finalizeCalculation"
    THEN {h \in LiveHandles : h = <<"program_", currentId_>> /\ "createProgram" \in r.dev}
    ELSE IF r.op = "createInputVariates"
    THEN {h \in LiveHandles :
            /\ h[2] = 0
            /\ CreatedBy(h[1]) \in r.dev
            /\ ~(h[1] = "variatesPool_" /\ variatesPoolSize_ > 0)}
    ELSE {}

\* C17: after every call, failed ones included, each live device handle is held by
\* a member that dispose, a version change or the teardown of the Context releases,
\* and no call assigns a new handle to a member whose handle is live and unreleased
C17_HandlesOwned ==
    [][/\ LiveHandles' \subseteq ReleasedAtTeardown'
       /\ Overwritten(ret') = {}]_vars


\* the failures of init() that the device causes
DeviceInit == {"createContext", "createCommandQueue"}

\* C21: on a device that fails every creation of a context, init() makes exactly
\* InitAttempts attempts, then fails with DeviceInit and leaves the Context unhealthy;
\* every later init() fails without a further attempt and leaves it unhealthy; and an
\* init() whose queue creation fails leaves the Context unhealthy, too
C21_InitFailure ==
    [][/\ \A errOk \in BOOLEAN, queueFail \in BOOLEAN, use \in IndeterminateHandleUse :
             healthy_ /\ ~initialized_ /\ InitContext(errOk, InitAttempts, queueFail, use)
             => /\ ret'.attempts = InitAttempts
                /\ ~ret'.ok /\ ret'.err \in DeviceInit
                /\ ~healthy_'
       /\ ~healthy_ /\ ret'.op = "init"
             => ~ret'.ok /\ ret'.attempts = 0 /\ ret'.dev = {} /\ ~healthy_'
       /\ ret'.op = "init" /\ ret'.err = "createCommandQueue" => ~healthy_']_vars

\* C22: an init() that returns normally on a Context not yet initialised has made at
\* least one attempt to create the context, the last of them successful, has created
\* the queue on that context, and leaves the Context healthy and initialised, whatever
\* the initial value of the status variable of the retry loop; an init() on an
\* initialised Context makes no device call and changes nothing
C22_InitSuccess ==
    [][/\ ~initialized_ /\ ret'.op = "init" /\ ret'.ok
             => /\ ret'.attempts >= 1
                /\ {"createContext", "createCommandQueue"} \subseteq ret'.dev
                /\ context_' = "live" /\ queue_' = "live"
                /\ healthy_' /\ initialized_'
       /\ initialized_ /\ healthy_ /\ ret'.op = "init"
             => ret'.ok /\ ret'.dev = {} /\ UNCHANGED device]_vars

\* the state of the Context that its operations read and write
ContextState ==
    <<records, variatesPoolSize_, variatesHandles, variatesPool, currentId_, currentState_, settings_,
      scratch, supportsDoublePrecision_, device>>

\* C23: on an unhealthy Context every operation other than init() fails and changes
\* no state
C23_UnhealthyRejects ==
    [][~healthy_ /\ ret'.op # "init" => ~ret'.ok /\ UNCHANGED ContextState]_vars

\* every createInputVariates of the evaluation in progress has returned its ids
EveryVariateReturned ==
    \A v \in Len(inputVarOffset_)..(Len(inputVarOffset_) + nVariates_ - 1) :
        v \in liveIds \cup Range(freedVariables_)

\* the evaluation in progress is well formed: on a calculation without a kernel, with
\* the outputs declared on ids it was given, and ready to pass the entry checks of
\* finalizeCalculation with nOut outputs
WellFormed(nOut) ==
    /\ currentId_ > 0
    /\ currentState_ # "idle"
    /\ NeedsBuild(currentId_)
    /\ ~disposed_[currentId_]
    /\ EveryVariateReturned
    /\ Range(outputVariables_) \subseteq liveIds
    /\ OutputReadsPastEnd = 0
    /\ FinalizeEntryError(nOut) = "none"

\* the variates a kernel has read were all generated
Generated(rn) == \A b \in 1..Len(rn.blocks) : rn.blocks[b] # 0

\* C24: no operation other than init() changes the health flag, so that the Context is
\* healthy after a failing call; and whatever has failed before, a well-formed
\* evaluation on a new calculation completes when the device does not fail in it: its
\* finalizeCalculation returns normally, having read variates that were generated
C24_UsableAfterFailure ==
    [][/\ ret'.op # "init" => healthy_' = healthy_
       /\ \A nOut \in 0..MaxOutputVars, use \in ReleasedHandleUse :
             WellFormed(nOut) /\ FinalizeCalculation(nOut, "none", <<>>, FALSE, use)
             => ret'.ok /\ Generated(ret'.rn)]_vars

\* C25: whenever finalizeCalculation launches a kernel, the precision of the active
\* settings is the precision the kernel was built for, cached or not, and the
\* precision of the variates pool the kernel is given
C25_OnePrecision ==
    [][ret'.op = "finalizeCalculation" /\ "enqueueKernel" \in ret'.dev
       => /\ builtSource'[currentId_].fp = FpTypeStr
          /\ nVariates_ > 0 => variatesPool.fp = FpTypeStr]_vars

\* C26: the variates an evaluation reads are those of its own seed. The first
\* evaluation on a new Context reads blocks 1, 2, ... of the stream of its
\* settings_.rngSeed, so two evaluations with the same seed and the same (dim, steps,
\* n) read the same values on any two Contexts exactly if every evaluation whose
\* kernel reads the pool, and that was returned the ids of its variates, finds there,
\* block by block, that stream
C26_VariatesOfSeed ==
    ret.op = "finalizeCalculation" /\ ret.ok /\ ret.rn # NoPool /\ EveryVariateReturned
    => /\ ret.rn.seed = settings_.rngSeed
       /\ \A b \in 1..Len(ret.rn.blocks) : ret.rn.blocks[b] = b

\* the number of values input k takes in the input buffer
Slots(k) == IF inputVarIsScalar_[k] THEN 1 ELSE size_[currentId_]

RECURSIVE SlotsUpTo(_)
SlotsUpTo(k) == IF k = 0 THEN 0 ELSE SlotsUpTo(k - 1) + Slots(k)

\* the offsets of the inputs are the running sums of their slots
OffsetsAreSlotSums ==
    /\ Len(inputVarIsScalar_) = Len(inputVarOffset_)
    /\ \A k \in 1..Len(inputVarOffset_) : inputVarOffset_[k] = SlotsUpTo(k - 1)

\* C27: in an evaluation the first input has offset 0 and every further input the
\* offset of the one before plus 1 if that is a scalar, plus the batch size if it is a
\* vector; the input buffer size finalizeCalculation uses is the last offset plus the
\* slots of the last input, and it is the number of values stored for the upload
C27_InputOffsets ==
    [][/\ ret'.op = "createInputVariable" /\ ret'.ok => OffsetsAreSlotSums'
       /\ ret'.op = "finalizeCalculation" /\ "createInputBuffer" \in ret'.dev
             => /\ InputBufferSize = SlotsUpTo(Len(inputVarOffset_))
                /\ InputBufferSize = ValuesStored]_vars

\* the class of id a by the ranges of the evaluation in progress
IdClass(a) ==
    IF a < Len(inputVarOffset_) THEN "input"
    ELSE IF a < Len(inputVarOffset_) + nVariates_ THEN "rn"
    ELSE "v"

\* C28: in an evaluation createInputVariable returns the ids 0, 1, ... of the inputs,
\* createInputVariates the ids that follow the inputs and the variates before, up to
\* nInputs + nVariates, and applyOperation only ids from nInputs + nVariates on;
\* applyOperation and the output block classify an id by these ranges, and read the
\* variate with id v at rn[(v - nInputs) * n + i]
C28_IdClasses ==
    [][/\ ret'.op = "createInputVariable" /\ ret'.ok => ret'.id = Len(inputVarOffset_)
       /\ ret'.op = "createInputVariates" /\ ret'.ok
             => ReturnedIds(ret') = (Len(inputVarOffset_) + nVariates_)
                                        ..(Len(inputVarOffset_) + nVariates_' - 1)
       /\ ret'.op = "applyOperation" /\ ret'.ok
             => ret'.id >= Len(inputVarOffset_) + nVariates_
       /\ currentId_ > 0
             => \A a \in 0..(MaxLayoutVars - 1) :
                   /\ ArgStr(a)[1] = IdClass(a) /\ OutputStr(a)[1] = IdClass(a)
                   /\ IdClass(a) = "rn"
                         => /\ ArgStr(a)[2] = (a - Len(inputVarOffset_)) * size_[currentId_]
                            /\ OutputStr(a)[2] = (a - Len(inputVarOffset_)) * size_[currentId_]]_vars

\* C29: the output block resolves a declared output as applyOperation resolves an
\* argument: an input is read at input[offset] if it is a scalar and at
\* input[offset + i] if it is a vector, offset being the offset of that input in the
\* input buffer; a variate at rn[(id - nInputs) * n + i]; any other id as v<id>
C29_OutputAsArgument ==
    [][/\ ret'.op = "finalizeCalculation" /\ currentId_ > 0
       /\ builtSource'[currentId_] # builtSource[currentId_]
       => \A i \in 1..Len(outputVariables_) :
             i <= nOutputVars_[currentId_]
             => LET o == outputVariables_[i]
                    line == builtSource'[currentId_].out[i][2]
                IN  /\ line[1] = IdClass(o) /\ line[1] = ArgStr(o)[1]
                    /\ line[2] = ArgStr(o)[2]
                    /\ line[1] = "input"
                          => line[2] = inputVarOffset_[o + 1]]_vars

\* C30: the pool size never decreases; after every successful createInputVariates,
\* with demand = nVariates_ * n, the pool size is a multiple of 624 and at least the
\* demand; a call that changes it sets it to the smallest multiple of 624 that is at
\* least the demand, which is 624 when an empty pool grows to a demand of at most
\* 624; and a call that finds the pool size at least the demand leaves the pool size,
\* the pool buffer and its content as they are
C30_PoolSize ==
    [][/\ variatesPoolSize_' >= variatesPoolSize_
       /\ ret'.op = "createInputVariates" /\ ret'.ok
          => LET demand == nVariates_' * size_[currentId_] IN
             /\ variatesPoolSize_' >= demand
             /\ variatesPoolSize_' % 624 = 0
             /\ variatesPoolSize_' # variatesPoolSize_
                   => variatesPoolSize_' - 624 < demand /\ variatesPoolSize_ < demand
             /\ variatesPoolSize_ = 0 /\ demand <= 624 => variatesPoolSize_' = 624
             /\ variatesPoolSize_ >= demand
                   => /\ variatesPoolSize_' = variatesPoolSize_
                      /\ variatesHandles'["variatesPool_"] = variatesHandles["variatesPool_"]
                      /\ variatesPool'.blocks = variatesPool.blocks
                      /\ "createPoolBuffer" \notin ret'.dev]_vars

\* a createInputVariates that has grown a pool of 624 values to 1248, copying the old
\* buffer into the new one
C30_Witness ==
    /\ ret.op = "createInputVariates" /\ ret.ok
    /\ variatesPoolSize_ = 2 * 624
    /\ {"createPoolBuffer", "copyBuffer"} \subseteq ret.dev
    /\ Len(variatesPool.blocks) = 2

\* the commands that have completed when the wait of a call returns: the commands
\* waited for and, with every command, those of its wait list
RECURSIVE WaitClosure(_, _)
WaitClosure(q, done) ==
    LET more == done \cup UNION {q[c].waits : c \in done}
    IN  IF more = done THEN done ELSE WaitClosure(q, more)

Completed(cmds) == WaitClosure(cmds.queue, cmds.waited)

\* the positions of the commands of a kind in the queue of a call
CommandsOf(cmds, kind) == {c \in 1..Len(cmds.queue) : cmds.queue[c].kind = kind}

\* a createInputVariates that has grown the pool
PoolGrowth ==
    ret'.op = "createInputVariates" /\ ret'.ok /\ variatesPoolSize_' > variatesPoolSize_

C32_FillOrdered ==
    [][ret'.op = "createInputVariates"
       => LET q == ret'.cmds.queue
              twists == CommandsOf(ret'.cmds, "twist")
              gens == CommandsOf(ret'.cmds, "generate")
              seeds == CommandsOf(ret'.cmds, "seedInit")
          IN  /\ \A t \in twists :
                    IF \E g \in gens : g < t
                    THEN t - 1 \in gens /\ t - 1 \in q[t].waits
                    ELSE q[t].waits = seeds
              /\ \A g \in gens : g - 1 \in twists /\ g - 1 \in q[g].waits]_vars

\* C33: in every finalizeCalculation the kernel launch has the event of the upload in
\* its wait list whenever there is an input buffer, every read has the event of the
\* kernel launch in its wait list, and a call that returns normally has enqueued one
\* launch and one read per output vector, the i-th of the n values from i * n on, and
\* has returned after all reads have completed
C33_FinalizeChain ==
    [][ret'.op = "finalizeCalculation" /\ currentId_ > 0
       => LET q == ret'.cmds.queue
              n == size_[currentId_]
              nOut == nOutputVars_[currentId_]
              writes == CommandsOf(ret'.cmds, "write")
              runs == CommandsOf(ret'.cmds, "run")
              reads == CommandsOf(ret'.cmds, "read")
          IN  /\ \A r \in runs :
                    /\ InputBufferSize > 0 => writes # {}
                    /\ writes \subseteq q[r].waits
                    /\ \A w \in writes : w < r
              /\ \A d \in reads :
                    runs # {} /\ runs \subseteq q[d].waits /\ \A r \in runs : r < d
              /\ ret'.ok
                    => /\ Cardinality(runs) = 1
                       /\ Cardinality(reads) = nOut
                       /\ \A i \in 0..(nOut - 1) :
                             \E d \in reads : q[d].from = i * n /\ q[d].to = i * n + n
                       /\ reads \subseteq Completed(ret'.cmds)]_vars

\* a finalizeCalculation of batch size 2 that has returned normally after an upload,
\* the launch and the reads of two output vectors, the second from value 2 on
C33_Witness ==
    /\ ret.op = "finalizeCalculation" /\ ret.ok /\ currentId_ > 0
    /\ CommandsOf(ret.cmds, "write") = {1}
    /\ CommandsOf(ret.cmds, "run") = {2}
    /\ CommandsOf(ret.cmds, "read") = {3, 4}
    /\ ret.cmds.queue[4].from = 2 /\ ret.cmds.queue[4].to = 4
    /\ ret.cmds.waited = {3, 4}

\* in the ssa text every line without a type prefix assigns a variable that an
\* earlier line has declared, and no variable is declared twice
DeclaredBeforeUse(ssa) ==
    \A l \in 1..Len(ssa) :
       LET earlier == {k \in 1..(l - 1) : ssa[k].decl # "" /\ ssa[k].v = ssa[l].v}
       IN  IF ssa[l].decl = "" THEN earlier # {} ELSE earlier = {}

\* C34: applyOperation returns the last id of the free list, removing it, when the
\* list is not empty, and nVars_, incrementing it, otherwise; the line it appends has
\* the type prefix exactly if the id was not recycled; and the ssa text declares every
\* variable once, before any line that assigns it without a type prefix
C34_DeclaredOnce ==
    [][/\ ret'.op = "applyOperation" /\ ret'.ok
          => /\ IF freedVariables_ # <<>>
                THEN /\ ret'.id = freedVariables_[Len(freedVariables_)]
                     /\ freedVariables_' = SubSeq(freedVariables_, 1, Len(freedVariables_) - 1)
                     /\ nVars_' = nVars_
                ELSE ret'.id = nVars_ /\ nVars_' = nVars_ + 1 /\ freedVariables_' = <<>>
             /\ Len(currentSsa_') = Len(currentSsa_) + 1
             /\ currentSsa_'[Len(currentSsa_')].v = ret'.id
             /\ currentSsa_'[Len(currentSsa_')].decl # "" <=> freedVariables_ = <<>>
       /\ DeclaredBeforeUse(currentSsa_')]_vars

\* C35: an applyOperation that fails with UnknownOpcode leaves nVars_, the free list
\* and the ssa text as they were
C35_UnknownOpcode ==
    [][ret'.op = "applyOperation" /\ ret'.err = "UnknownOpcode"
       => /\ ~ret'.ok
          /\ nVars_' = nVars_
          /\ freedVariables_' = freedVariables_
          /\ currentSsa_' = currentSsa_]_vars

\* C36: a version change and a dispose of a record release its kernel and its
\* program only when these are live, that is built and not released since; and at
\* any time the teardown of the Context would release kernels and programs of records
\* only if they are live
C36_ReleasedWhenBuilt ==
    [][/\ \A i \in 1..Len(kernel_) :
             version_'[i] # version_[i] \/ disposed_'[i] # disposed_[i]
             => kernel_[i] = "live" /\ program_[i] = "live"
       /\ \A h \in ReleasedAtTeardown' :
             /\ h[1] = "kernel_" => kernel_'[h[2]] = "live"
             /\ h[1] = "program_" => program_'[h[2]] = "live"]_vars

\* C37: when initiateCalculation returns fresh = false the record has a kernel, and
\* the ssa text, the output list and the record's output count it leaves are those
\* the kernel was built from
C37_NotFreshMeansCached ==
    [][ret'.op = "initiateCalculation" /\ ret'.ok /\ ~ret'.fresh
       => /\ hasKernel_'[ret'.id] /\ kernel_'[ret'.id] = "live"
          /\ builtSource'[ret'.id].built
          /\ currentSsa_' = builtSource'[ret'.id].ssa
          /\ nOutputVars_'[ret'.id] = Len(builtSource'[ret'.id].out)
          /\ Len(outputVariables_') = nOutputVars_'[ret'.id]]_vars

\* C38: when finalizeCalculation returns normally every command it has enqueued, the
\* upload, the kernel launch and the reads, has completed, so that the exit guard
\* releases the input and the output buffer after their last use
C38_CompletedBeforeRelease ==
    [][ret'.op = "finalizeCalculation" /\ ret'.ok
       => /\ CommandsOf(ret'.cmds, "run") # {}
          /\ \A c \in 1..Len(ret'.cmds.queue) : c \in Completed(ret'.cmds)]_vars

\* C39: a createInputVariates that fails on a pool that holds variates leaves the
\* pool size as it was and the pool handle on a live buffer that holds, block by
\* block, the variates it held before
C39_FailedGrowthKeepsPool ==
    [][/\ ret'.op = "createInputVariates" /\ ~ret'.ok
       /\ variatesPoolSize_ > 0 /\ variatesHandles["variatesPool_"] = "live"
       => /\ variatesPoolSize_' = variatesPoolSize_
          /\ variatesHandles'["variatesPool_"] = "live"
          /\ \A b \in 1..(variatesPoolSize_ \div 624) :
                /\ b <= Len(variatesPool'.blocks)
                /\ variatesPool'.blocks[b] = variatesPool.blocks[b]]_vars

\* C40: every generate of the fill loop is preceded by one twist launch of its own,
\* and a twist launch has a single work item, so that the transformation of the state,
\* which the kernel runs from the first word to the last whatever its work item, is
\* applied once and by one execution
C40_TwistOnce ==
    [][ret'.op = "createInputVariates"
       => LET q == ret'.cmds.queue
              twists == CommandsOf(ret'.cmds, "twist")
              gens == CommandsOf(ret'.cmds, "generate")
          IN  /\ \A g \in gens : g - 1 \in twists
              /\ \A t \in twists : t + 1 \in gens \/ t = Len(q)
              /\ \A t \in twists : q[t].items = 1]_vars

====
